---- MODULE Spec2Model ----
(***************************************************************************)
(* ArcFlux payment orchestration pipeline: GuardianAgent.process (risk     *)
(* gate and payment creation), PaymentScheduler.run_tick (due selection,   *)
(* balance pre-check, execution, status/schedule update), schedule_utils   *)
(* (next_run, is_recurring) and the JSON-backed repositories.              *)
(*                                                                         *)
(* Time is counted in whole seconds since 2024-01-01T00:00:00Z.  An ISO    *)
(* timestamp string is modelled by the instant it parses to; NoTs stands   *)
(* for an absent (or empty) timestamp and BadTs for a string parse_iso     *)
(* rejects.  Amounts are whole currency units.                             *)
(***************************************************************************)
EXTENDS Integers, Sequences, FiniteSets, TLC

\* ---------------------------------------------------------------- bounds
MaxPayments == 1
MaxAssessments == 1
PairPayments == 2
PairAssessments == 2
MaxTime == 600
MaxAmount == 1
MaxBalance == 1
\* next_run is applied to references in the first MaxRefDay days after the
\* epoch, and to its own result up to MaxChain times
MaxRefDay == 430
MaxChain == 2
\* run_tick calls that overlap, and threads that write to the stores at once
MaxTicks == 2
MaxWriters == 2
\* score_risk is applied to amounts up to MaxScoreAmount either side of zero and
\* to users with a maxPaymentAmount up to MaxScoreLimit
MaxScoreAmount == 25
MaxScoreLimit == 20


\* ------------------------------------------------- values standing for None
NoTs == -1
BadTs == -2
NoAmount == -99
NoId == 0
NoDay == -1

\* ------------------------------------------------------- program constants
SecondsPerDay == 86400
DefaultDelay == 300
EpochYear == 2024

\* the clock is read every ClockStep seconds
ClockStep == DefaultDelay

Min(a, b) == IF a < b THEN a ELSE b
Max(a, b) == IF a > b THEN a ELSE b

\* ------------------------------------------------------------ schedule_utils
\* calendar.monthrange(year, month)[1]
IsLeap(year) == (year % 4 = 0 /\ year % 100 # 0) \/ year % 400 = 0

MonthRange(year, month) ==
  IF month = 2 THEN (IF IsLeap(year) THEN 29 ELSE 28)
  ELSE IF month \in {4, 6, 9, 11} THEN 30 ELSE 31

\* days from the epoch to the first day of (year, month)
RECURSIVE DaysBefore(_, _)
DaysBefore(year, month) ==
  IF year = EpochYear /\ month = 1 THEN 0
  ELSE IF month = 1 THEN DaysBefore(year - 1, 12) + MonthRange(year - 1, 12)
  ELSE DaysBefore(year, month - 1) + MonthRange(year, month - 1)

\* datetime(year, month, day, hour, minute, second) as an instant
MakeInstant(year, month, day, timeOfDay) ==
  (DaysBefore(year, month) + (day - 1)) * SecondsPerDay + timeOfDay

\* the (year, month) an instant falls in
RECURSIVE MonthOf(_, _, _)
MonthOf(dayNumber, year, month) ==
  IF dayNumber < DaysBefore(year, month) + MonthRange(year, month)
  THEN [year |-> year, month |-> month]
  ELSE IF month = 12 THEN MonthOf(dayNumber, year + 1, 1)
  ELSE MonthOf(dayNumber, year, month + 1)

\* parse_iso: the instant of a timestamp string, NoTs where it returns None
parse_iso(timestamp) ==
  IF timestamp = NoTs \/ timestamp = BadTs THEN NoTs ELSE timestamp

\* format_iso: the string of an instant (strings are modelled by their instant)
format_iso(dt) == dt

\* a schedule dict: `recurring`, `frequency` ("" when the key is missing),
\* `intervalSeconds` (0 when missing) and `dayOfMonth` (1 when missing,
\* NoDay for a value int() rejects).  EmptySchedule is {}.
EmptySchedule ==
  [recurring |-> FALSE, frequency |-> "", intervalSeconds |-> 0, dayOfMonth |-> 1]

is_recurring(schedule) ==
  IF schedule = EmptySchedule THEN FALSE
  ELSE IF schedule.recurring THEN TRUE
  ELSE schedule.frequency \in {"interval", "monthly"}

\* the loop of _next_monthly with `>=` where the code has `>`
RECURSIVE MonthlyScanNotStrict(_, _, _, _)
MonthlyScanNotStrict(reference, day, year, month) ==
  LET last_day == MonthRange(year, month)
      run_day == Min(day, last_day)
      candidate == MakeInstant(year, month, run_day, reference % SecondsPerDay)
  IN  IF candidate >= reference THEN candidate
      ELSE IF month + 1 > 12 THEN MonthlyScanNotStrict(reference, day, year + 1, 1)
      ELSE MonthlyScanNotStrict(reference, day, year, month + 1)

RECURSIVE MonthlyScan(_, _, _, _)
MonthlyScan(reference, day, year, month) ==
  LET last_day == MonthRange(year, month)
      run_day == Min(day, last_day)
      candidate == MakeInstant(year, month, run_day, reference % SecondsPerDay)
  IN  IF candidate > reference THEN candidate
      ELSE IF month + 1 > 12 THEN MonthlyScan(reference, day, year + 1, 1)
      ELSE MonthlyScan(reference, day, year, month + 1)

\* a _next_monthly that starts its search in the month after the reference's
NextMonthlySkipsOwnMonth(reference, day_of_month) ==
  LET day == Max(1, Min(31, day_of_month))
      ym == MonthOf(reference \div SecondsPerDay, EpochYear, 1)
  IN  IF ym.month = 12 THEN MonthlyScan(reference, day, ym.year + 1, 1)
      ELSE MonthlyScan(reference, day, ym.year, ym.month + 1)

_next_monthly(reference, day_of_month) ==
  LET day == Max(1, Min(31, day_of_month))
      ym == MonthOf(reference \div SecondsPerDay, EpochYear, 1)
  IN  MonthlyScan(reference, day, ym.year, ym.month)

\* next_run(schedule, reference); NoTs where it returns None
\* next_run with `seconds < 0` where the code has `seconds <= 0`
NextRunNonNegative(schedule, reference) ==
  IF schedule = EmptySchedule THEN NoTs
  ELSE IF schedule.frequency = "interval"
  THEN (IF schedule.intervalSeconds < 0 THEN NoTs
        ELSE format_iso(reference + schedule.intervalSeconds))
  ELSE IF schedule.frequency = "monthly"
  THEN (IF schedule.dayOfMonth = NoDay THEN NoTs
        ELSE format_iso(_next_monthly(reference, schedule.dayOfMonth)))
  ELSE NoTs

\* a next_run that does not know the monthly frequency
NextRunWithoutMonthly(schedule, reference) ==
  IF schedule = EmptySchedule THEN NoTs
  ELSE IF schedule.frequency = "interval"
  THEN (IF schedule.intervalSeconds <= 0 THEN NoTs
        ELSE format_iso(reference + schedule.intervalSeconds))
  ELSE NoTs

next_run(schedule, reference) ==
  IF schedule = EmptySchedule THEN NoTs
  ELSE IF schedule.frequency = "interval"
  THEN (IF schedule.intervalSeconds <= 0 THEN NoTs
        ELSE format_iso(reference + schedule.intervalSeconds))
  ELSE IF schedule.frequency = "monthly"
  THEN (IF schedule.dayOfMonth = NoDay THEN NoTs
        ELSE format_iso(_next_monthly(reference, schedule.dayOfMonth)))
  ELSE NoTs

\* ------------------------------------------------------------ state
VARIABLES
  users,      \* userDatabase: list of user records
  payments,   \* paymentSchedule: list of payment records
  risk,       \* riskAssessmentDb: list of risk-assessment records
  now,        \* datetime.now(timezone.utc)
  llm,        \* which BaseArcLLM ModelLoader.get() returned
  ret,        \* what the last operation returned (or raised)
  calls,      \* payment executions and notifications the last operation made
  cache,      \* BalanceMonitor.cache of the monitor the balance operations are
              \* called on (the guardian's and the scheduler's own monitors write
              \* their caches in fetch_balance and nothing ever reads them)
  ticks,      \* the run_tick calls in progress: each one's list of payments, its
              \* position in it and its processed list
  lock,       \* JSONDataStore._locks: per path, the thread that holds the RLock
  writers     \* the threads inside JSONDataStore.update: each one's mutator, the
              \* data it loaded and its position

vars == <<users, payments, risk, now, llm, ret, calls, cache, ticks, lock, writers>>

\* ------------------------------------------------------------ input sets
Amounts == -1 .. MaxAmount
AmountInputs == Amounts \cup {NoAmount}
Balances == 0 .. MaxBalance
UserIdInputs == {"", "ghost", "u1", "u2"}
RecipientInputs == {"", "alice"}
\* recipientAddress: missing, one that passes verify_address, one that fails it
AddressInputs == {"", "arc1bob", "0xbob"}
ConfirmInputs ==
  { [confirmation |-> "", confirmed |-> "", confirm |-> ""],
    [confirmation |-> "false", confirmed |-> "", confirm |-> ""],
    [confirmation |-> "true", confirmed |-> "", confirm |-> ""],
    [confirmation |-> "", confirmed |-> "true", confirm |-> ""],
    [confirmation |-> "", confirmed |-> "", confirm |-> "true"] }
TimestampInputs == {NoTs, BadTs, 0}
ScheduleInputs ==
  { EmptySchedule,
    [recurring |-> TRUE, frequency |-> "interval", intervalSeconds |-> 0, dayOfMonth |-> 1],
    [recurring |-> TRUE, frequency |-> "interval", intervalSeconds |-> ClockStep, dayOfMonth |-> 1],
    [recurring |-> TRUE, frequency |-> "monthly", intervalSeconds |-> 0, dayOfMonth |-> 31],
    [recurring |-> TRUE, frequency |-> "", intervalSeconds |-> 0, dayOfMonth |-> 1] }

\* what an entities value means to bool(): "" is a missing key, "false" and
\* "true" are the JSON booleans
Truthy(v) == v = "true"

\* ------------------------------------------------------------ api_connector
\* APIResult of BalanceAPI.get_balance; None of fetch_balance is [kind "none"]
FetchNone == [kind |-> "none", balance |-> 0]
FetchFailed == [kind |-> "failed", balance |-> 0]
FetchOk(b) == [kind |-> "ok", balance |-> b]

\* APIResult of CircleAPI.initiate_payment: the payload's transactionId and
\* status ("" for a key the payload does not have) and the error ("" for None)
CircleSubmitted ==
  [success |-> TRUE, payload |-> [transactionId |-> "txn_1", status |-> "submitted"],
   error |-> ""]
CircleFailure ==
  [success |-> FALSE, payload |-> [transactionId |-> "", status |-> ""],
   error |-> "Circle API simulated failure"]

\* any APIResult an APIConnector handed to the ExecutionEngine can return
ApiResponses ==
  [success : BOOLEAN,
   payload : [transactionId : {"", "txn_1"}, status : {"", "submitted", "pending"}],
   error : {"", "Circle API simulated failure"}]

\* an engine that passes the response on as it came
ExecutePassesThrough(response) ==
  [success |-> response.success,
   transaction_id |-> response.payload.transactionId,
   status |-> IF response.payload.status = "" THEN "submitted" ELSE response.payload.status,
   error |-> response.error,
   raw |-> response.payload]

\* ExecutionEngine.execute: the ExecutionResult for the API's response ("" for None)
execute(response) ==
  IF response.success
  THEN [success |-> TRUE,
        transaction_id |-> response.payload.transactionId,
        status |-> IF response.payload.status = "" THEN "submitted"
                   ELSE response.payload.status,
        error |-> "",
        raw |-> response.payload]
  ELSE [success |-> FALSE,
        transaction_id |-> "",
        status |-> "failed",
        error |-> response.error,
        raw |-> response.payload]

\* the ExecutionResults run_tick gets from the engine with the Circle connector
ExecOk == execute(CircleSubmitted)
ExecFailed == execute(CircleFailure)
ExecResults == {ExecOk, ExecFailed}

\* one call the pipeline makes to the payment API, the balance API or the
\* notification service: what was asked, for which payment and user, and (for
\* fetch_balance) the balance that came back
Call(api, payment_id, user_id, message, value) ==
  [api |-> api, paymentId |-> payment_id, userId |-> user_id, message |-> message,
   value |-> value]

FetchCall(payment_id, user, fetched) ==
  Call("fetch_balance", payment_id, user.userId, fetched.kind, fetched.balance)

\* CircleAPI.verify_address: address.startswith("arc1")
Arc1Addresses == {"arc1alice", "arc1bob", "arc1stockacme"}
verify_address(address) == address \in Arc1Addresses

\* ------------------------------------------------------------ data_access
NoUser == [userId |-> "", maxPaymentAmount |-> 0, linkedAccounts |-> 0,
           whitelistedRecipients |-> <<>>]

Alice == [recipientId |-> "alice", name |-> "Alice", address |-> "arc1alice",
          currency |-> "USDC"]

UserDatabase ==
  << [userId |-> "u1", maxPaymentAmount |-> 2, linkedAccounts |-> 1,
      whitelistedRecipients |-> <<Alice>>],
     [userId |-> "u2", maxPaymentAmount |-> 0, linkedAccounts |-> 1,
      whitelistedRecipients |-> <<>>] >>

\* UserRepository.get_user: the first record with that userId, NoUser for None
get_user(store, user_id) ==
  LET hits == {i \in 1 .. Len(store) : store[i].userId = user_id}
  IN  IF hits = {} THEN NoUser
      ELSE store[CHOOSE i \in hits : \A j \in hits : i <= j]

\* index of the first record with that paymentId, 0 when there is none
IndexOf(store, payment_id) ==
  LET hits == {i \in 1 .. Len(store) : store[i].paymentId = payment_id}
  IN  IF hits = {} THEN 0 ELSE CHOOSE i \in hits : \A j \in hits : i <= j

\* dict.setdefault on a timestamp field: NoTs is a key the payment does not have
SetDefault(payment, field, value) ==
  IF payment[field] = NoTs THEN [payment EXCEPT ![field] = value] ELSE payment

\* an upsert that prunes the records in a terminal status as it writes
UpsertPrunesHistory(store, payment, clock) ==
  LET kept == SelectSeq(store, LAMBDA record : record.status \notin {"EXECUTED", "FAILED"})
      idx == IndexOf(kept, payment.paymentId)
      stamped == SetDefault(payment, "updatedAt", clock)
  IN  IF idx # 0
      THEN [kept EXCEPT ![idx] = SetDefault(stamped, "createdAt", kept[idx].createdAt)]
      ELSE Append(kept, SetDefault(stamped, "createdAt", clock))

\* an upsert that adds the payment at the end whatever the store holds
UpsertAppendsAlways(store, payment, clock) ==
  Append(store, SetDefault(SetDefault(payment, "updatedAt", clock), "createdAt", clock))

\* PaymentScheduleRepository.upsert
upsert(store, payment, clock) ==
  LET idx == IndexOf(store, payment.paymentId)
      stamped == SetDefault(payment, "updatedAt", clock)
  IN  IF idx # 0
      THEN [store EXCEPT ![idx] = SetDefault(stamped, "createdAt", store[idx].createdAt)]
      ELSE Append(store, SetDefault(stamped, "createdAt", clock))

\* an update_status that forgets the last execution of the record it updates
UpdateStatusForgetsExecution(store, payment_id, status, extras, clock) ==
  LET idx == IndexOf(store, payment_id)
  IN  IF idx = 0 THEN store
      ELSE [store EXCEPT ![idx] =
             [f \in DOMAIN store[idx] |->
                IF f = "status" THEN status
                ELSE IF f = "updatedAt" THEN clock
                ELSE IF f \in DOMAIN extras THEN extras[f]
                ELSE IF f = "transactionId" THEN ""
                ELSE IF f = "lastExecutedAt" THEN NoTs
                ELSE store[idx][f]]]

\* PaymentScheduleRepository.update_status; extras is the set of fields to set
update_status(store, payment_id, status, extras, clock) ==
  LET idx == IndexOf(store, payment_id)
  IN  IF idx = 0 THEN store
      ELSE [store EXCEPT ![idx] =
             [f \in DOMAIN store[idx] |->
                IF f = "status" THEN status
                ELSE IF f = "updatedAt" THEN clock
                ELSE IF f \in DOMAIN extras THEN extras[f]
                ELSE store[idx][f]]]

\* a store write that saves only the new record
AppendOverwrites(data, record) == <<record>>

\* a store write that puts the new record first
AppendInFront(data, record) == <<record>> \o data

\* JSONDataStore.append on a list store (RiskAssessmentRepository.append)
append(data, record) == Append(data, record)

\* ------------------------------------------------------------ model_loader
\* round(risk, 2) in hundredths, risk = min(1.0, amount / max_amount)
RiskHundredths(amount, max_amount) ==
  LET a == IF max_amount < 0 THEN 0 - amount ELSE amount
      d == IF max_amount < 0 THEN 0 - max_amount ELSE max_amount
      q == (200 * a + d) \div (2 * d)
  IN  IF a >= d THEN 100
      ELSE IF (200 * a + d) % (2 * d) = 0 /\ q % 2 # 0 THEN q - 1
      ELSE q

\* risk > bound / 100 on the unrounded risk
RiskAbove(amount, max_amount, bound) ==
  LET a == IF max_amount < 0 THEN 0 - amount ELSE amount
      d == IF max_amount < 0 THEN 0 - max_amount ELSE max_amount
  IN  IF a >= d THEN 100 > bound ELSE 100 * a > bound * d

\* a heuristic that also looks at the balance in the context
HeuristicScoreByBalance(context) ==
  LET amount == context.amount
      max_amount == IF context.features.max_amount = 0 THEN 1
                    ELSE context.features.max_amount
      short == context.balance < amount
  IN  [riskScore |-> IF short THEN 100 ELSE RiskHundredths(amount, max_amount),
       decision |-> IF short \/ RiskAbove(amount, max_amount, 85) THEN "DENY"
                    ELSE IF RiskAbove(amount, max_amount, 60) THEN "FLAG_FOR_REVIEW"
                    ELSE "APPROVE"]

\* HeuristicArcLLM.score_risk
HeuristicScoreRisk(context) ==
  LET amount == context.amount
      max_amount == IF context.features.max_amount = 0 THEN 1
                    ELSE context.features.max_amount
  IN  [riskScore |-> RiskHundredths(amount, max_amount),
       decision |-> IF RiskAbove(amount, max_amount, 85) THEN "DENY"
                    ELSE IF RiskAbove(amount, max_amount, 60) THEN "FLAG_FOR_REVIEW"
                    ELSE "APPROVE"]

\* HuggingFaceArcLLM.score_risk: whatever JSON the model wrote ("" is a missing
\* decision key), or the fallback
HuggingFaceOutputs ==
  { [riskScore |-> 30, decision |-> d] : d \in {"APPROVE", "DENY", "FLAG_FOR_REVIEW", ""} }

ScoreOutputs(kind, context) ==
  IF kind = "heuristic" THEN {HeuristicScoreRisk(context)} ELSE HuggingFaceOutputs

\* ------------------------------------------------------------ balance_monitor
\* BalanceMonitor.fetch_balance: what a call can return for this user
FetchResults(user) ==
  IF user.linkedAccounts = 0 THEN {FetchNone}
  ELSE {FetchFailed} \cup {FetchOk(b) : b \in Balances}

\* ------------------------------------------------------------ guardian_agent
NoReason == [text |-> "", amount |-> 0, currency |-> "", name |-> "", recipientId |-> ""]
Reason(text) == [NoReason EXCEPT !.text = text]

_resolve_recipient(user, entities) ==
  LET hits == {i \in 1 .. Len(user.whitelistedRecipients) :
                 user.whitelistedRecipients[i].recipientId = entities.recipientId}
  IN  IF hits # {}
      THEN user.whitelistedRecipients[CHOOSE i \in hits : \A j \in hits : i <= j]
      ELSE [recipientId |-> IF entities.recipientId = "" THEN "unknown"
                            ELSE entities.recipientId,
            name |-> IF entities.recipientName = "" THEN "Unknown recipient"
                     ELSE entities.recipientName,
            address |-> entities.recipientAddress,
            currency |-> "USDC"]

_verify_recipient(recipient) ==
  IF recipient.address = "" THEN "unknown"
  ELSE IF verify_address(recipient.address) THEN "verified"
  ELSE "unverified"

_calculate_features(user, entities, amount, is_new_recipient) ==
  [amount |-> amount,
   max_amount |-> IF user.maxPaymentAmount # 0 THEN user.maxPaymentAmount ELSE amount,
   frequency |-> IF entities.schedule.frequency = "" THEN 1
                 ELSE IF entities.schedule.frequency = "daily" THEN 3 ELSE 2,
   new_recipient |-> is_new_recipient]

\* uuid4: an id no stored payment has
FreshId(store) ==
  CHOOSE id \in 1 .. Len(store) + 1 :
    /\ IndexOf(store, id) = 0
    /\ \A other \in 1 .. Len(store) + 1 : IndexOf(store, other) = 0 => id <= other

\* a payment dict whose default scheduledTimestamp is the time of the approval
NewPaymentDueAtOnce(store, user, entities, amount, currency, clock) ==
  LET default_at == format_iso(clock)
      planned == next_run(entities.schedule, clock)
  IN  [paymentId |-> IF entities.paymentId # NoId THEN entities.paymentId
                     ELSE FreshId(store),
       userId |-> user.userId,
       recipient |-> entities.recipientId,
       amount |-> amount,
       currency |-> currency,
       conditions |-> entities.schedule,
       status |-> "APPROVED",
       scheduledTimestamp |->
         IF entities.scheduledTimestamp # NoTs THEN entities.scheduledTimestamp
         ELSE IF entities.schedule # EmptySchedule
         THEN (IF planned # NoTs THEN planned ELSE default_at)
         ELSE default_at,
       updatedAt |-> NoTs,
       createdAt |-> NoTs,
       transactionId |-> "",
       lastExecutedAt |-> NoTs,
       failureReason |-> ""]

\* the payment dict GuardianAgent._schedule_payment builds
NewPayment(store, user, entities, amount, currency, clock) ==
  LET default_at == format_iso(clock + DefaultDelay)
      planned == next_run(entities.schedule, clock)
  IN  [paymentId |-> IF entities.paymentId # NoId THEN entities.paymentId
                     ELSE FreshId(store),
       userId |-> user.userId,
       recipient |-> entities.recipientId,
       amount |-> amount,
       currency |-> currency,
       conditions |-> entities.schedule,
       status |-> "APPROVED",
       scheduledTimestamp |->
         IF entities.scheduledTimestamp # NoTs THEN entities.scheduledTimestamp
         ELSE IF entities.schedule # EmptySchedule
         THEN (IF planned # NoTs THEN planned ELSE default_at)
         ELSE default_at,
       updatedAt |-> NoTs,
       createdAt |-> NoTs,
       transactionId |-> "",
       lastExecutedAt |-> NoTs,
       failureReason |-> ""]

_schedule_payment(store, user, entities, amount, currency, clock) ==
  upsert(store, NewPayment(store, user, entities, amount, currency, clock), clock)

\* the record GuardianAgent._record_assessment appends
Assessment(user_id, entities, features, model_output, verification, clock) ==
  [request |-> [userId |-> user_id, paymentId |-> entities.paymentId,
                amount |-> entities.amount, confirmation |-> entities.confirmation,
                confirmed |-> entities.confirmed, confirm |-> entities.confirm,
                recipientId |-> entities.recipientId,
                recipientName |-> entities.recipientName,
                recipientAddress |-> entities.recipientAddress,
                scheduledTimestamp |-> entities.scheduledTimestamp,
                schedule |-> entities.schedule],
   model |-> model_output,
   verification |-> verification,
   timestamp |-> clock]

\* a gate that asks whether a confirmation key is present, not whether it is truthy
ConfirmedIfPresent(entities) ==
  entities.confirmation # "" \/ entities.confirmed # "" \/ entities.confirm # ""

Confirmed(entities) ==
  Truthy(entities.confirmation) \/ Truthy(entities.confirmed) \/ Truthy(entities.confirm)

\* a guardian that also schedules what the scorer flagged for review
ApprovesOrFlags(decision) == decision \in {"APPROVE", "FLAG_FOR_REVIEW"}

\* `if decision == "APPROVE"`
Approves(decision) == decision = "APPROVE"

\* a balance check with its operands exchanged
InsufficientSwapped(balance, amount) == amount < balance

\* `if balance < amount`
InsufficientAtApproval(balance, amount) == balance < amount

\* a guardian that denies a confirmed request whose recipient failed verification
DecideUnlessUnverified(store, user, entities, recipient, amount, currency, balance, model_output, clock) ==
  LET decision == IF model_output.decision = "" THEN "FLAG_FOR_REVIEW"
                  ELSE model_output.decision
      blank == [decision |-> decision, payment_id |-> NoId, reason |-> NoReason,
                store |-> store, admin |-> FALSE]
  IN  IF ~Confirmed(entities)
      THEN [blank EXCEPT !.decision = "AWAITING_CONFIRMATION",
                         !.reason = [text |-> "Confirm payment", amount |-> amount,
                                     currency |-> currency, name |-> recipient.name,
                                     recipientId |-> recipient.recipientId]]
      ELSE IF _verify_recipient(recipient) = "unverified"
      THEN [blank EXCEPT !.decision = "DENY", !.reason = Reason("Recipient not verified")]
      ELSE IF Approves(decision)
      THEN (IF InsufficientAtApproval(balance, amount)
            THEN [blank EXCEPT !.decision = "DENY",
                               !.reason = Reason("Insufficient balance at approval time")]
            ELSE [blank EXCEPT
                    !.payment_id = NewPayment(store, user, entities, amount, currency, clock).paymentId,
                    !.reason = Reason("Payment scheduled"),
                    !.store = _schedule_payment(store, user, entities, amount, currency, clock)])
      ELSE IF decision = "FLAG_FOR_REVIEW"
      THEN [blank EXCEPT !.reason = Reason("Manual review required"), !.admin = TRUE]
      ELSE [blank EXCEPT !.reason = Reason("Risk too high")]

\* a guardian that schedules the payment it sends to manual review
DecideSchedulesFlagged(store, user, entities, recipient, amount, currency, balance, model_output, clock) ==
  LET decision == IF model_output.decision = "" THEN "FLAG_FOR_REVIEW"
                  ELSE model_output.decision
      blank == [decision |-> decision, payment_id |-> NoId, reason |-> NoReason,
                store |-> store, admin |-> FALSE]
  IN  IF ~Confirmed(entities)
      THEN [blank EXCEPT !.decision = "AWAITING_CONFIRMATION",
                         !.reason = [text |-> "Confirm payment", amount |-> amount,
                                     currency |-> currency, name |-> recipient.name,
                                     recipientId |-> recipient.recipientId]]
      ELSE IF Approves(decision)
      THEN (IF InsufficientAtApproval(balance, amount)
            THEN [blank EXCEPT !.decision = "DENY",
                               !.reason = Reason("Insufficient balance at approval time")]
            ELSE [blank EXCEPT
                    !.payment_id = NewPayment(store, user, entities, amount, currency, clock).paymentId,
                    !.reason = Reason("Payment scheduled"),
                    !.store = _schedule_payment(store, user, entities, amount, currency, clock)])
      ELSE IF decision = "FLAG_FOR_REVIEW"
      THEN [blank EXCEPT !.reason = Reason("Manual review required"), !.admin = TRUE,
                         !.store = _schedule_payment(store, user, entities, amount, currency, clock)]
      ELSE [blank EXCEPT !.reason = Reason("Risk too high")]

\* GuardianAgent.process from line 164 on: the decision, and the payment store after it
Decide(store, user, entities, recipient, amount, currency, balance, model_output, clock) ==
  LET decision == IF model_output.decision = "" THEN "FLAG_FOR_REVIEW"
                  ELSE model_output.decision
      blank == [decision |-> decision, payment_id |-> NoId, reason |-> NoReason,
                store |-> store, admin |-> FALSE]
  IN  IF ~Confirmed(entities)
      THEN [blank EXCEPT !.decision = "AWAITING_CONFIRMATION",
                         !.reason = [text |-> "Confirm payment", amount |-> amount,
                                     currency |-> currency, name |-> recipient.name,
                                     recipientId |-> recipient.recipientId]]
      ELSE IF Approves(decision)
      THEN (IF InsufficientAtApproval(balance, amount)
            THEN [blank EXCEPT !.decision = "DENY",
                               !.reason = Reason("Insufficient balance at approval time")]
            ELSE [blank EXCEPT
                    !.payment_id = NewPayment(store, user, entities, amount, currency, clock).paymentId,
                    !.reason = Reason("Payment scheduled"),
                    !.store = _schedule_payment(store, user, entities, amount, currency, clock)])
      ELSE IF decision = "FLAG_FOR_REVIEW"
      THEN [blank EXCEPT !.reason = Reason("Manual review required"), !.admin = TRUE]
      ELSE [blank EXCEPT !.reason = Reason("Risk too high")]

\* ------------------------------------------------------------ payment_scheduler
\* a due test that compares with `<` where the code has `<=`
IsDueStrictlyBefore(payment, clock) ==
  IF payment.status \notin {"APPROVED", "SCHEDULED"} THEN FALSE
  ELSE IF payment.scheduledTimestamp = NoTs THEN TRUE
  ELSE IF parse_iso(payment.scheduledTimestamp) = NoTs THEN FALSE
  ELSE parse_iso(payment.scheduledTimestamp) < clock

\* a due test without the status filter
IsDueAnyStatus(payment, clock) ==
  IF payment.scheduledTimestamp = NoTs THEN TRUE
  ELSE IF parse_iso(payment.scheduledTimestamp) = NoTs THEN FALSE
  ELSE parse_iso(payment.scheduledTimestamp) <= clock

_is_due(payment, clock) ==
  IF payment.status \notin {"APPROVED", "SCHEDULED"} THEN FALSE
  ELSE IF payment.scheduledTimestamp = NoTs THEN TRUE
  ELSE IF parse_iso(payment.scheduledTimestamp) = NoTs THEN FALSE
  ELSE parse_iso(payment.scheduledTimestamp) <= clock

\* an ensure_sufficient that lets a payment through when no balance was fetched
EnsureSufficientUnlessShort(fetched, required_amount) ==
  IF fetched.kind # "ok" THEN TRUE ELSE fetched.balance >= required_amount

\* BalanceMonitor.ensure_sufficient on what the fetch returned
ensure_sufficient(fetched, required_amount) ==
  IF fetched.kind # "ok" THEN FALSE ELSE fetched.balance >= required_amount

\* the notification ensure_sufficient sends before it returns False
BalanceNotice(user, fetched, required_amount) ==
  IF fetched.kind = "ok" /\ fetched.balance < required_amount
  THEN <<Call("notify_user", NoId, user.userId, "Balance check failed", 0)>>
  ELSE <<>>

\* a pre-execution check that looks at the amount only
PreCheckWithoutBalance(payment, fetched) == payment.amount > 0

\* a pre-execution check that lets a zero amount through
PreCheckAllowsZero(payment, fetched) ==
  IF payment.amount < 0 THEN FALSE ELSE ensure_sufficient(fetched, payment.amount)

_pre_execution_check(payment, fetched) ==
  IF payment.amount <= 0 THEN FALSE ELSE ensure_sufficient(fetched, payment.amount)

\* a failure handler that notifies the user and leaves the payment as it is, to
\* be tried again by the next tick
HandleFailureLeavesDue(acc, payment_id, reason, userStore, clock) ==
  LET idx == IndexOf(acc.store, payment_id)
      owner == IF idx = 0 THEN NoUser ELSE get_user(userStore, acc.store[idx].userId)
  IN  [acc EXCEPT
         !.calls = IF owner # NoUser
                   THEN Append(acc.calls, Call("notify_user", payment_id, owner.userId, reason, 0))
                   ELSE acc.calls]

\* acc is the tick so far: the store, the calls made, the processed list
\* a failure handler that notifies the payment's userId without looking the user up
HandleFailureNotifiesAnyway(acc, payment_id, reason, userStore, clock) ==
  LET idx == IndexOf(acc.store, payment_id)
  IN  [acc EXCEPT
         !.store = update_status(acc.store, payment_id, "FAILED",
                                 [failureReason |-> reason], clock),
         !.calls = IF idx # 0
                   THEN Append(acc.calls, Call("notify_user", payment_id,
                                               acc.store[idx].userId, reason, 0))
                   ELSE acc.calls]

_handle_failure(acc, payment_id, reason, userStore, clock) ==
  LET idx == IndexOf(acc.store, payment_id)
      owner == IF idx = 0 THEN NoUser ELSE get_user(userStore, acc.store[idx].userId)
  IN  [acc EXCEPT
         !.store = update_status(acc.store, payment_id, "FAILED",
                                 [failureReason |-> reason], clock),
         !.calls = IF owner # NoUser
                   THEN Append(acc.calls, Call("notify_user", payment_id, owner.userId, reason, 0))
                   ELSE acc.calls]

_handle_success(acc, payment, result, clock) ==
  LET schedule == payment.conditions
      now_iso == format_iso(clock)
      next_timestamp == next_run(schedule, clock)
      extras == [transactionId |-> result.transaction_id, lastExecutedAt |-> now_iso]
  IN  IF is_recurring(schedule)
      THEN [acc EXCEPT !.store =
              update_status(acc.store, payment.paymentId, "SCHEDULED",
                            IF next_timestamp # NoTs
                            THEN [transactionId |-> result.transaction_id,
                                  lastExecutedAt |-> now_iso,
                                  scheduledTimestamp |-> next_timestamp]
                            ELSE extras,
                            clock)]
      ELSE [acc EXCEPT !.store =
              update_status(acc.store, payment.paymentId, "EXECUTED", extras, clock)]

\* a loop body that first looks the payment up in the store and skips it when
\* the stored record is no longer due
TickOneClaimsFirst(acc, payment, input, userStore, clock) ==
  LET user == get_user(userStore, payment.userId)
      fetched == IF user.linkedAccounts = 0 THEN FetchNone ELSE input.fetched
      checked == [acc EXCEPT !.calls =
                    acc.calls \o (IF payment.amount <= 0 THEN <<>>
                                  ELSE <<FetchCall(payment.paymentId, user, fetched)>>
                                       \o BalanceNotice(user, fetched, payment.amount))]
      sent == [checked EXCEPT !.calls =
                 Append(checked.calls, Call("execute_payment", payment.paymentId, "", "", 0))]
      handled == IF input.execution.success
                 THEN _handle_success(sent, payment, input.execution, clock)
                 ELSE _handle_failure(sent, payment.paymentId,
                                      IF input.execution.error # "" THEN input.execution.error
                                      ELSE "execution_failed",
                                      userStore, clock)
      idx == IndexOf(acc.store, payment.paymentId)
  IN  IF ~_is_due(payment, clock) THEN acc
      ELSE IF idx # 0 /\ ~_is_due(acc.store[idx], clock) THEN acc
      ELSE IF user = NoUser
      THEN _handle_failure(acc, payment.paymentId, "User missing", userStore, clock)
      ELSE IF ~_pre_execution_check(payment, fetched)
      THEN _handle_failure(checked, payment.paymentId, "FAILED_INSUFFICIENT_FUNDS",
                           userStore, clock)
      ELSE [handled EXCEPT !.processed =
              Append(handled.processed,
                     [paymentId |-> payment.paymentId, success |-> input.execution.success])]

\* the body of run_tick's loop for one payment of the list read at its start
TickOne(acc, payment, input, userStore, clock) ==
  LET user == get_user(userStore, payment.userId)
      fetched == IF user.linkedAccounts = 0 THEN FetchNone ELSE input.fetched
      checked == [acc EXCEPT !.calls =
                    acc.calls \o (IF payment.amount <= 0 THEN <<>>
                                  ELSE <<FetchCall(payment.paymentId, user, fetched)>>
                                       \o BalanceNotice(user, fetched, payment.amount))]
      sent == [checked EXCEPT !.calls =
                 Append(checked.calls, Call("execute_payment", payment.paymentId, "", "", 0))]
      handled == IF input.execution.success
                 THEN _handle_success(sent, payment, input.execution, clock)
                 ELSE _handle_failure(sent, payment.paymentId,
                                      IF input.execution.error # "" THEN input.execution.error
                                      ELSE "execution_failed",
                                      userStore, clock)
  IN  IF ~_is_due(payment, clock) THEN acc
      ELSE IF user = NoUser
      THEN _handle_failure(acc, payment.paymentId, "User missing", userStore, clock)
      ELSE IF ~_pre_execution_check(payment, fetched)
      THEN _handle_failure(checked, payment.paymentId, "FAILED_INSUFFICIENT_FUNDS",
                           userStore, clock)
      ELSE [handled EXCEPT !.processed =
              Append(handled.processed,
                     [paymentId |-> payment.paymentId, success |-> input.execution.success])]

RECURSIVE TickLoop(_, _, _, _, _, _)
TickLoop(acc, listed, i, inputs, userStore, clock) ==
  IF i > Len(listed) THEN acc
  ELSE TickLoop(TickOne(acc, listed[i], inputs[i], userStore, clock),
                listed, i + 1, inputs, userStore, clock)

\* a run_tick that reads the store again after its loop and handles what is
\* still due
RunTickUntilSettled(store, inputs, userStore, clock) ==
  LET first == TickLoop([store |-> store, calls |-> <<>>, processed |-> <<>>],
                        store, 1, inputs, userStore, clock)
  IN  TickLoop(first, first.store, 1, inputs, userStore, clock)

\* a run_tick that returns the first entry of its processed list only
RunTickReportsFirst(store, inputs, userStore, clock) ==
  LET done == TickLoop([store |-> store, calls |-> <<>>, processed |-> <<>>],
                       store, 1, inputs, userStore, clock)
  IN  [done EXCEPT !.processed = IF Len(done.processed) > 1
                                 THEN <<done.processed[1]>> ELSE done.processed]

\* PaymentScheduler.run_tick
run_tick(store, inputs, userStore, clock) ==
  TickLoop([store |-> store, calls |-> <<>>, processed |-> <<>>],
           store, 1, inputs, userStore, clock)

TickInputs ==
  [fetched : {FetchFailed} \cup {FetchOk(b) : b \in Balances}, execution : ExecResults]

\* ------------------------------------------------------------ operations
\* BalanceMonitor.cache: the balance last fetched per user (one account, one
\* currency each), NoBalance where the cache has no entry
NoBalance == -1
Unlinked == [userId |-> "u3", maxPaymentAmount |-> 0, linkedAccounts |-> 0,
             whitelistedRecipients |-> <<>>]
MonitorUsers == {UserDatabase[1], UserDatabase[2], Unlinked}
EmptyCache == [user_id \in {user.userId : user \in MonitorUsers} |-> NoBalance]

\* no run_tick call is in progress
TickIds == 1 .. MaxTicks
IdleTick == [pc |-> "idle", listed |-> <<>>, i |-> 0, processed |-> <<>>]
NoTicks == [t \in TickIds |-> IdleTick]

\* no thread is inside a store, every lock is free
Paths == {"paymentSchedule", "riskAssessmentDb"}
NoThread == 0
WriterIds == 1 .. MaxWriters
NoMutator == [name |-> "", path |-> "", record |-> NoId, paymentId |-> NoId, status |-> ""]
IdleWriter == [pc |-> "idle", mutator |-> NoMutator, data |-> <<>>]
NoLocks == [path \in Paths |-> NoThread]
NoWriters == [w \in WriterIds |-> IdleWriter]

NoReturn ==
  [op |-> "", error |-> "", decision |-> "", risk_score |-> 0, payment_id |-> NoId,
   reason |-> NoReason, processed |-> <<>>]

Init ==
  /\ users = UserDatabase
  /\ payments = <<>>
  /\ risk = <<>>
  /\ now = 0
  /\ llm \in {"heuristic", "hf"}
  /\ ret = NoReturn
  /\ calls = <<>>
  /\ cache = EmptyCache
  /\ ticks = NoTicks
  /\ lock = NoLocks
  /\ writers = NoWriters

\* a process that reports the error to the administrator before it raises
RaiseAndNotify(message) ==
  /\ ret' = [NoReturn EXCEPT !.op = "process", !.error = message]
  /\ calls' = <<Call("notify_admin", NoId, "", message, 0)>>
  /\ UNCHANGED <<users, payments, risk, now, llm, cache, ticks, lock, writers>>

Raise(message) ==
  /\ ret' = [NoReturn EXCEPT !.op = "process", !.error = message]
  /\ calls' = <<>>
  /\ UNCHANGED <<users, payments, risk, now, llm, cache, ticks, lock, writers>>

\* the decision_context GuardianAgent.process hands to score_risk
Context(user, entities, fetched) ==
  LET recipient == _resolve_recipient(user, entities)
      is_new_recipient ==
        \A i \in 1 .. Len(user.whitelistedRecipients) :
          user.whitelistedRecipients[i].recipientId # recipient.recipientId
      balance == IF fetched.kind = "ok" THEN fetched.balance ELSE 0
  IN  [userId |-> user.userId, recipient |-> recipient, amount |-> entities.amount,
       currency |-> recipient.currency, balance |-> balance,
       features |-> _calculate_features(user, entities, entities.amount, is_new_recipient)]

\* a guardian that adds the recipient it resolved to the user's whitelist when it
\* approves a payment to a recipient the user did not have
EvaluateWhitelists(user, entities, fetched, model_output, capacity) ==
  LET context == Context(user, entities, fetched)
      outcome == Decide(payments, user, entities, context.recipient, context.amount,
                        context.currency, context.balance, model_output, now)
  IN  /\ Len(outcome.store) <= capacity
      /\ payments' = outcome.store
      /\ risk' = append(risk, Assessment(user.userId, entities, context.features,
                                         model_output,
                                         _verify_recipient(context.recipient), now))
      /\ ret' = [NoReturn EXCEPT !.op = "process",
                                 !.decision = outcome.decision,
                                 !.risk_score = model_output.riskScore,
                                 !.payment_id = outcome.payment_id,
                                 !.reason = outcome.reason]
      /\ calls' = <<FetchCall(NoId, user, fetched)>>
                  \o (IF outcome.admin
                      THEN <<Call("notify_admin", NoId, "", "Payment flagged", 0)>>
                      ELSE <<>>)
      /\ users' = [i \in 1 .. Len(users) |->
                     IF users[i].userId = user.userId
                        /\ context.features.new_recipient
                        /\ outcome.payment_id # NoId
                     THEN [users[i] EXCEPT !.whitelistedRecipients =
                             Append(users[i].whitelistedRecipients, context.recipient)]
                     ELSE users[i]]
      /\ UNCHANGED <<now, llm, cache, ticks, lock, writers>>

\* GuardianAgent.process once the user is known and the amount present
Evaluate(user, entities, fetched, model_output, capacity) ==
  LET context == Context(user, entities, fetched)
      outcome == Decide(payments, user, entities, context.recipient, context.amount,
                        context.currency, context.balance, model_output, now)
  IN  /\ Len(outcome.store) <= capacity
      /\ payments' = outcome.store
      /\ risk' = append(risk, Assessment(user.userId, entities, context.features,
                                         model_output,
                                         _verify_recipient(context.recipient), now))
      /\ ret' = [NoReturn EXCEPT !.op = "process",
                                 !.decision = outcome.decision,
                                 !.risk_score = model_output.riskScore,
                                 !.payment_id = outcome.payment_id,
                                 !.reason = outcome.reason]
      /\ calls' = <<FetchCall(NoId, user, fetched)>>
                  \o (IF outcome.admin
                      THEN <<Call("notify_admin", NoId, "", "Payment flagged", 0)>>
                      ELSE <<>>)
      /\ UNCHANGED <<users, now, llm, cache, ticks, lock, writers>>

\* the call reaches _schedule_payment, the only reader of the request's
\* scheduledTimestamp and schedule
Schedules(entities, fetched, model_output) ==
  /\ Confirmed(entities)
  /\ Approves(model_output.decision)
  /\ ~InsufficientAtApproval(IF fetched.kind = "ok" THEN fetched.balance ELSE 0,
                             entities.amount)

\* GuardianAgent.process on a payload whose userId and entities are drawn from
\* the request sets
Process(requests) ==
  /\ Len(risk) < requests.assessments
  /\ \E user_id \in requests.userIds :
       IF user_id = "" THEN Raise("userId is required")
       ELSE IF get_user(users, user_id) = NoUser THEN Raise("Unknown user")
       ELSE \E amount \in requests.amounts :
              IF amount = NoAmount THEN Raise("Payment amount missing")
              ELSE \E recipientId \in requests.recipients, confirm \in requests.confirms,
                      paymentId \in requests.paymentIds,
                      recipientAddress \in requests.addresses,
                      fetched \in FetchResults(get_user(users, user_id)) :
                     LET user == get_user(users, user_id)
                         entities ==
                           [amount |-> amount, recipientId |-> recipientId,
                            recipientName |-> "",
                            recipientAddress |-> recipientAddress,
                            confirmation |-> confirm.confirmation,
                            confirmed |-> confirm.confirmed,
                            confirm |-> confirm.confirm,
                            paymentId |-> paymentId,
                            scheduledTimestamp |-> NoTs,
                            schedule |-> EmptySchedule]
                     IN  \E model_output \in ScoreOutputs(llm, Context(user, entities, fetched)) :
                           IF Schedules(entities, fetched, model_output)
                           THEN \E scheduledTimestamp \in requests.timestamps,
                                   schedule \in requests.schedules :
                                  Evaluate(user,
                                           [entities EXCEPT
                                              !.scheduledTimestamp = scheduledTimestamp,
                                              !.schedule = schedule],
                                           fetched, model_output, requests.capacity)
                           ELSE Evaluate(user, entities, fetched, model_output,
                                         requests.capacity)

Tick ==
  \E inputs \in [1 .. Len(payments) -> TickInputs] :
    LET done == run_tick(payments, inputs, users, now)
    IN  /\ payments' = done.store
        /\ calls' = done.calls
        /\ ret' = [NoReturn EXCEPT !.op = "run_tick", !.processed = done.processed]
        /\ UNCHANGED <<users, risk, now, llm, cache, ticks, lock, writers>>

\* time passes between operations
Advance ==
  /\ now + ClockStep <= MaxTime
  /\ now' = now + ClockStep
  /\ UNCHANGED <<users, payments, risk, llm, ret, calls, cache, ticks, lock, writers>>

\* ---- sync_validator
\* an index that files a request without a paymentId under every payment
RecordsForUnnamed(assessments, payment_id) ==
  SelectSeq(assessments,
            LAMBDA record : record.request.paymentId = NoId
                            \/ record.request.paymentId = payment_id)

\* SyncValidator._index_assessments: the records whose request names payment_id
RecordsFor(assessments, payment_id) ==
  SelectSeq(assessments,
            LAMBDA record : record.request.paymentId # NoId
                            /\ record.request.paymentId = payment_id)

Issue(text, payment_id, decision) ==
  [issue |-> text, paymentId |-> payment_id, decision |-> decision]

\* the issues SyncValidator.validate reports for the records of an EXECUTED payment
RECURSIVE DecisionIssues(_, _, _)
DecisionIssues(payment, records, i) ==
  IF i > Len(records) THEN <<>>
  ELSE (IF payment.status = "EXECUTED"
           /\ records[i].model.decision \notin {"APPROVE", "FLAG_FOR_REVIEW"}
        THEN <<Issue("executed despite decision", payment.paymentId,
                     records[i].model.decision)>>
        ELSE <<>>)
       \o DecisionIssues(payment, records, i + 1)

RECURSIVE ValidateLoop(_, _, _)
ValidateLoop(store, assessments, i) ==
  IF i > Len(store) THEN <<>>
  ELSE LET payment == store[i]
           records == RecordsFor(assessments, payment.paymentId)
       IN  (IF payment.status \in {"APPROVED", "EXECUTED"} /\ records = <<>>
            THEN <<Issue("lacks risk assessment entry", payment.paymentId, "")>>
            ELSE <<>>)
           \o DecisionIssues(payment, records, 1)
           \o ValidateLoop(store, assessments, i + 1)

\* SyncValidator.validate
validate(store, assessments) == ValidateLoop(store, assessments, 1)

Validate ==
  LET issues == validate(payments, risk)
  IN  /\ ret' = [op |-> "validate", issues |-> issues]
      /\ calls' = IF issues # <<>>
                  THEN <<Call("notify_admin", NoId, "", "ArcPay sync issue", 0)>>
                  ELSE <<>>
      /\ UNCHANGED <<users, payments, risk, now, llm, cache, ticks, lock, writers>>

\* ---- balance_monitor operations
\* the cache after BalanceMonitor.fetch_balance returned `fetched` for user
Cached(store, user, fetched) ==
  IF fetched.kind = "ok" THEN [store EXCEPT ![user.userId] = fetched.balance] ELSE store

FetchLog(user, fetched) ==
  IF fetched.kind = "none" THEN <<>> ELSE <<FetchCall(NoId, user, fetched)>>

\* BalanceMonitor.fetch_balance(user)
FetchBalance ==
  \E user \in MonitorUsers : \E fetched \in FetchResults(user) :
    /\ cache' = Cached(cache, user, fetched)
    /\ ret' = [op |-> "fetch_balance", userId |-> user.userId, result |-> fetched]
    /\ calls' = FetchLog(user, fetched)
    /\ UNCHANGED <<users, payments, risk, now, llm, ticks, lock, writers>>

\* BalanceMonitor.ensure_sufficient(user, required_amount)
EnsureSufficient ==
  \E user \in MonitorUsers, required_amount \in Amounts : \E fetched \in FetchResults(user) :
    /\ cache' = Cached(cache, user, fetched)
    /\ ret' = [op |-> "ensure_sufficient", userId |-> user.userId,
               amount |-> required_amount, fetched |-> fetched,
               result |-> ensure_sufficient(fetched, required_amount)]
    /\ calls' = FetchLog(user, fetched) \o BalanceNotice(user, fetched, required_amount)
    /\ UNCHANGED <<users, payments, risk, now, llm, ticks, lock, writers>>

\* thresholds in percent; 20 is the default of detect_drop
Thresholds == {0, 20, 50, 100}

\* `drop_ratio >= threshold` with drop_ratio = (prev - current) / prev
DropReaches(prev, current, threshold) == (prev - current) * 100 >= threshold * prev

\* BalanceMonitor.detect_drop(user, threshold): the notification it sends, given
\* the cache it started with and what its own fetch_balance returned
detect_drop(store, user, fetched, threshold) ==
  LET after == Cached(store, user, fetched)
      current == fetched.balance
      prev == IF after[user.userId] = NoBalance THEN current ELSE after[user.userId]
  IN  IF user.linkedAccounts = 0 THEN <<>>
      ELSE IF fetched.kind # "ok" THEN <<>>
      ELSE IF prev = 0 THEN <<>>
      ELSE IF DropReaches(prev, current, threshold)
      THEN <<Call("notify_user", NoId, user.userId, "Balance dropped", current)>>
      ELSE <<>>

DetectDrop ==
  \E user \in MonitorUsers, threshold \in Thresholds : \E fetched \in FetchResults(user) :
    /\ cache' = Cached(cache, user, fetched)
    /\ ret' = [op |-> "detect_drop", userId |-> user.userId, threshold |-> threshold,
               fetched |-> fetched]
    /\ calls' = FetchLog(user, fetched) \o detect_drop(cache, user, fetched, threshold)
    /\ UNCHANGED <<users, payments, risk, now, llm, ticks, lock, writers>>

NextBalance == FetchBalance \/ EnsureSufficient \/ DetectDrop
SpecBalance == Init /\ [][NextBalance]_vars

\* ------------------------------------------------------------ specifications
\* any request; the stores hold MaxPayments payments and MaxAssessments assessments
AnyRequest ==
  [userIds |-> UserIdInputs, amounts |-> AmountInputs, recipients |-> RecipientInputs,
   confirms |-> ConfirmInputs, paymentIds |-> {NoId, 1}, addresses |-> {""},
   timestamps |-> TimestampInputs, schedules |-> ScheduleInputs,
   capacity |-> MaxPayments, assessments |-> MaxAssessments]

Next == Process(AnyRequest) \/ Tick \/ Advance

Spec == Init /\ [][Next]_vars

\* the same with ticks that recur forever (an external timer calls run_tick at a
\* fixed interval) while time passes
SpecRecurring == Init /\ [][Next]_vars /\ WF_vars(Tick) /\ WF_vars(Advance)

\* several requests for one-time payments of one user that are due at once, and
\* requests without a userId, of an unknown user or without an amount
PairRequest ==
  [userIds |-> {"", "ghost", "u1"}, amounts |-> (0 .. MaxAmount) \cup {NoAmount},
   recipients |-> {"alice"},
   confirms |-> {c \in ConfirmInputs : c.confirmed = "" /\ c.confirm = ""
                                         /\ c.confirmation # "false"},
   paymentIds |-> {NoId, 1}, addresses |-> {""},
   timestamps |-> {0}, schedules |-> {EmptySchedule},
   capacity |-> PairPayments, assessments |-> PairAssessments]

NextPair == Process(PairRequest) \/ Tick \/ Advance

SpecPair == Init /\ [][NextPair]_vars

\* a payment store that still holds a payment of a user who is no longer in the
\* user store: the payment the guardian wrote when the user existed
Departed == [userId |-> "ghost", maxPaymentAmount |-> 2, linkedAccounts |-> 1,
             whitelistedRecipients |-> <<Alice>>]
OrphanStore ==
  _schedule_payment(<<>>, Departed,
                    [amount |-> 1, recipientId |-> "alice", recipientName |-> "",
                     recipientAddress |-> "",
                     confirmation |-> "true", confirmed |-> "", confirm |-> "",
                     paymentId |-> NoId, scheduledTimestamp |-> 0,
                     schedule |-> EmptySchedule],
                    1, "USDC", 0)
InitOrphan ==
  /\ users = UserDatabase
  /\ payments = OrphanStore
  /\ risk = <<>>
  /\ now = 0
  /\ llm \in {"heuristic", "hf"}
  /\ ret = NoReturn
  /\ calls = <<>>
  /\ cache = EmptyCache
  /\ ticks = NoTicks
  /\ lock = NoLocks
  /\ writers = NoWriters
SpecOrphan == InitOrphan /\ [][NextPair]_vars

\* requests of one user to a whitelisted and to an unknown recipient, with and
\* without a recipientAddress
VerifyRequest ==
  [userIds |-> {"u1"}, amounts |-> 0 .. MaxAmount, recipients |-> {"alice", "bob"},
   confirms |-> {c \in ConfirmInputs : c.confirmed = "" /\ c.confirm = ""},
   paymentIds |-> {NoId}, addresses |-> AddressInputs,
   timestamps |-> {NoTs, 0}, schedules |-> {EmptySchedule},
   capacity |-> MaxPayments, assessments |-> MaxAssessments]
NextVerify == Process(VerifyRequest) \/ Tick \/ Advance
SpecVerify == Init /\ [][NextVerify]_vars

\* guardian, scheduler and validator
NextAudit == Process(PairRequest) \/ Tick \/ Advance \/ Validate
SpecAudit == Init /\ [][NextAudit]_vars

\* ---- next_run on its own: the reference is the clock, the schedule any dict
\* a caller can store as conditions
TimesOfDay == {0, 43200, 86399}
References ==
  {day * SecondsPerDay + timeOfDay : day \in 0 .. MaxRefDay, timeOfDay \in TimesOfDay}
ScheduleDomain ==
  {EmptySchedule}
    \cup [recurring : {TRUE}, frequency : {"interval"},
          intervalSeconds : {-1, 0, 1, 5, SecondsPerDay}, dayOfMonth : {1}]
    \cup [recurring : {TRUE}, frequency : {"monthly"}, intervalSeconds : {0},
          dayOfMonth : {NoDay, 0, 1, 15, 28, 29, 30, 31, 45}]
    \cup [recurring : {FALSE, TRUE}, frequency : {"", "once", "daily"},
          intervalSeconds : {5}, dayOfMonth : {1}]

InitSchedule ==
  /\ users = UserDatabase
  /\ payments = <<>>
  /\ risk = <<>>
  /\ now \in References
  /\ llm = "heuristic"
  /\ ret = NoReturn
  /\ calls = <<>>
  /\ cache = EmptyCache
  /\ ticks = NoTicks
  /\ lock = NoLocks
  /\ writers = NoWriters

\* next_run(schedule) with the clock as reference
NextRunNow ==
  /\ ret.op = ""
  /\ \E schedule \in ScheduleDomain :
       ret' = [op |-> "next_run", schedule |-> schedule, reference |-> now,
               result |-> next_run(schedule, now), depth |-> 1]
  /\ UNCHANGED <<users, payments, risk, now, llm, calls, cache, ticks, lock, writers>>

\* next_run(schedule, parse_iso(r)) on the timestamp r the last call returned
NextRunAgain ==
  /\ ret.op = "next_run"
  /\ ret.result # NoTs
  /\ ret.depth < MaxChain
  /\ ret' = [ret EXCEPT !.reference = parse_iso(ret.result),
                        !.result = next_run(ret.schedule, parse_iso(ret.result)),
                        !.depth = ret.depth + 1]
  /\ UNCHANGED <<users, payments, risk, now, llm, calls, cache, ticks, lock, writers>>

NextSchedule == NextRunNow \/ NextRunAgain
SpecSchedule == InitSchedule /\ [][NextSchedule]_vars

\* ---- run_tick calls that overlap (one per request thread of the API server):
\* each reads the payment list once, then handles its payments one by one, every
\* update_status being one locked read-modify-write of the store as it is then
RacePayer == UserDatabase[1]
RaceEntities ==
  [amount |-> 1, recipientId |-> "alice", recipientName |-> "", recipientAddress |-> "",
   confirmation |-> "true", confirmed |-> "", confirm |-> "",
   paymentId |-> NoId, scheduledTimestamp |-> 0, schedule |-> EmptySchedule]
\* two approved payments due at once, a one-time and a recurring one
RaceStore ==
  _schedule_payment(
    _schedule_payment(<<>>, RacePayer, RaceEntities, 1, "USDC", 0),
    RacePayer, [RaceEntities EXCEPT !.schedule =
                   [recurring |-> TRUE, frequency |-> "interval",
                    intervalSeconds |-> ClockStep, dayOfMonth |-> 1]], 1, "USDC", 0)

InitRace ==
  /\ users = UserDatabase
  /\ payments = RaceStore
  /\ risk = <<>>
  /\ now = 0
  /\ llm = "heuristic"
  /\ ret = NoReturn
  /\ calls = <<>>
  /\ cache = EmptyCache
  /\ ticks = NoTicks
  /\ lock = NoLocks
  /\ writers = NoWriters

\* run_tick starts: `for payment in self.payments.list()`
TickBegin(t) ==
  /\ ticks[t].pc = "idle"
  /\ ticks' = [ticks EXCEPT ![t] = [pc |-> "running", listed |-> payments, i |-> 1,
                                    processed |-> <<>>]]
  /\ UNCHANGED <<users, payments, risk, now, llm, ret, calls, cache, lock, writers>>

\* one iteration of the loop
TickPayment(t) ==
  /\ ticks[t].pc = "running"
  /\ ticks[t].i <= Len(ticks[t].listed)
  /\ \E input \in TickInputs :
       LET done == TickOne([store |-> payments, calls |-> <<>>,
                            processed |-> ticks[t].processed],
                           ticks[t].listed[ticks[t].i], input, users, now)
       IN  /\ payments' = done.store
           /\ calls' = done.calls
           /\ ticks' = [ticks EXCEPT ![t].i = ticks[t].i + 1,
                                     ![t].processed = done.processed]
  /\ UNCHANGED <<users, risk, now, llm, ret, cache, lock, writers>>

\* `return processed`
TickReturn(t) ==
  /\ ticks[t].pc = "running"
  /\ ticks[t].i > Len(ticks[t].listed)
  /\ ticks' = [ticks EXCEPT ![t].pc = "done"]
  /\ ret' = [NoReturn EXCEPT !.op = "run_tick", !.processed = ticks[t].processed]
  /\ UNCHANGED <<users, payments, risk, now, llm, calls, cache, lock, writers>>

NextRace ==
  \/ \E t \in TickIds : TickBegin(t)
  \/ \E t \in TickIds : TickPayment(t)
  \/ \E t \in TickIds : TickReturn(t)
  \/ Advance
SpecRace == InitRace /\ [][NextRace]_vars

\* ---- data_store: threads that write to the stores at once, each through
\* JSONDataStore.update (lock, load, mutate, save, unlock)
\* the record RiskAssessmentRepository.append gets from thread w
WriterAssessment(w) ==
  Assessment(RacePayer.userId, [RaceEntities EXCEPT !.paymentId = w],
             _calculate_features(RacePayer, RaceEntities, 1, FALSE),
             [riskScore |-> 50, decision |-> "APPROVE"], "verified", 0)

\* the payment PaymentScheduleRepository.upsert gets from thread w
WriterPayment(w, payment_id) ==
  NewPayment(RaceStore, RacePayer, [RaceEntities EXCEPT !.paymentId = payment_id],
             1 + w, "USDC", 0)

\* the calls a thread can make: append on the risk store, update_status and
\* upsert on the payment store
Mutators(w) ==
  { [name |-> "append", path |-> "riskAssessmentDb", record |-> WriterAssessment(w),
     paymentId |-> NoId, status |-> ""] }
  \cup { [name |-> "update_status", path |-> "paymentSchedule", record |-> NoId,
          paymentId |-> id, status |-> status] :
          id \in 1 .. Len(RaceStore), status \in {"EXECUTED", "FAILED"} }
  \cup { [name |-> "upsert", path |-> "paymentSchedule",
          record |-> WriterPayment(w, id), paymentId |-> id, status |-> "APPROVED"] :
          id \in {1, Len(RaceStore) + w} }

\* the mutator applied to the data the thread loaded
Mutate(mutator, data, clock) ==
  IF mutator.name = "append" THEN append(data, mutator.record)
  ELSE IF mutator.name = "update_status"
  THEN update_status(data, mutator.paymentId, mutator.status,
                     IF mutator.status = "FAILED"
                     THEN [failureReason |-> "FAILED_INSUFFICIENT_FUNDS"]
                     ELSE [transactionId |-> ExecOk.transaction_id,
                           lastExecutedAt |-> format_iso(clock)],
                     clock)
  ELSE upsert(data, mutator.record, clock)

\* a lock anyone can take at any time
CanAcquireAlways(held, path, w) == TRUE

\* threading.RLock: free, or held by the thread itself
CanAcquire(held, path, w) == held[path] \in {NoThread, w}

\* a repository method is called in thread w
WriterCall(w) ==
  /\ writers[w].pc = "idle"
  /\ \E mutator \in Mutators(w) :
       writers' = [writers EXCEPT ![w] = [pc |-> "waiting", mutator |-> mutator,
                                          data |-> <<>>]]
  /\ UNCHANGED <<users, payments, risk, now, llm, ret, calls, cache, ticks, lock>>

\* update: `with self.lock`
WriterAcquire(w) ==
  /\ writers[w].pc = "waiting"
  /\ CanAcquire(lock, writers[w].mutator.path, w)
  /\ lock' = [lock EXCEPT ![writers[w].mutator.path] = w]
  /\ writers' = [writers EXCEPT ![w].pc = "locked"]
  /\ UNCHANGED <<users, payments, risk, now, llm, ret, calls, cache, ticks>>

\* update: `data = self.load()`
WriterLoad(w) ==
  /\ writers[w].pc = "locked"
  /\ writers' = [writers EXCEPT ![w].pc = "loaded",
                                ![w].data = IF writers[w].mutator.path = "paymentSchedule"
                                            THEN payments ELSE risk]
  /\ UNCHANGED <<users, payments, risk, now, llm, ret, calls, cache, ticks, lock>>

\* update: `mutated = mutator(data)` and `self.save(mutated)`
WriterSave(w) ==
  /\ writers[w].pc = "loaded"
  /\ LET mutated == Mutate(writers[w].mutator, writers[w].data, now)
     IN  IF writers[w].mutator.path = "paymentSchedule"
         THEN payments' = mutated /\ risk' = risk
         ELSE risk' = mutated /\ payments' = payments
  /\ writers' = [writers EXCEPT ![w].pc = "saved"]
  /\ UNCHANGED <<users, now, llm, ret, calls, cache, ticks, lock>>

\* update: the end of the `with` block
WriterRelease(w) ==
  /\ writers[w].pc = "saved"
  /\ lock' = [lock EXCEPT ![writers[w].mutator.path] =
                IF lock[writers[w].mutator.path] = w THEN NoThread
                ELSE lock[writers[w].mutator.path]]
  /\ writers' = [writers EXCEPT ![w].pc = "done"]
  /\ UNCHANGED <<users, payments, risk, now, llm, ret, calls, cache, ticks>>

NextStore ==
  \/ \E w \in WriterIds : WriterCall(w)
  \/ \E w \in WriterIds : WriterAcquire(w)
  \/ \E w \in WriterIds : WriterLoad(w)
  \/ \E w \in WriterIds : WriterSave(w)
  \/ \E w \in WriterIds : WriterRelease(w)
SpecStore == InitRace /\ [][NextStore]_vars

\* ---- HeuristicArcLLM.score_risk on its own, on the context the guardian
\* builds for an amount and a user's maxPaymentAmount
ScoreAmounts == (0 - MaxScoreAmount) .. MaxScoreAmount
ScoreLimits == 0 .. MaxScoreLimit

ScoreRisk ==
  /\ \E amount \in ScoreAmounts, limit \in ScoreLimits :
       LET user == [RacePayer EXCEPT !.maxPaymentAmount = limit]
           context == Context(user, [RaceEntities EXCEPT !.amount = amount], FetchOk(0))
       IN  ret' = [op |-> "score_risk", amount |-> amount,
                   max_amount |-> IF context.features.max_amount = 0 THEN 1
                                  ELSE context.features.max_amount,
                   result |-> HeuristicScoreRisk(context)]
  /\ UNCHANGED <<users, payments, risk, now, llm, calls, cache, ticks, lock, writers>>

InitScore ==
  /\ users = UserDatabase
  /\ payments = <<>>
  /\ risk = <<>>
  /\ now = 0
  /\ llm = "heuristic"
  /\ ret = NoReturn
  /\ calls = <<>>
  /\ cache = EmptyCache
  /\ ticks = NoTicks
  /\ lock = NoLocks
  /\ writers = NoWriters

NextScore == ScoreRisk
SpecScore == InitScore /\ [][NextScore]_vars

\* ---- ExecutionEngine.execute on its own, on any response of the API, next to
\* ticks over two due payments
ExecutePayments ==
  [paymentId : 1 .. Len(RaceStore), amount : Amounts]

Execute ==
  /\ \E payment \in ExecutePayments, response \in ApiResponses :
       /\ ret' = [op |-> "execute", paymentId |-> payment.paymentId,
                  response |-> response, result |-> execute(response)]
       /\ calls' = <<Call("execute_payment", payment.paymentId, "", "", payment.amount)>>
  /\ UNCHANGED <<users, payments, risk, now, llm, cache, ticks, lock, writers>>

NextEngine == Execute \/ Tick \/ Advance
SpecEngine == InitRace /\ [][NextEngine]_vars

\* ---- stock_agent and rest_api: a /v1/commands request that the IntentAgent
\* routed to the stock agent
\* stockMarketDb
StockMarketDb == << [symbol |-> "ACME", name |-> "Acme Corp", price |-> 1] >>
NoStock == [symbol |-> "", name |-> "", price |-> 0]

\* the symbols a request can name: none, one of the store in either case, one
\* the store does not have
SymbolInputs == {"", "acme", "ACME", "NOPE"}

\* str.upper and str.lower on these symbols
Upper(symbol) == IF symbol = "acme" THEN "ACME" ELSE symbol
Lower(symbol) == IF symbol = "ACME" THEN "acme" ELSE IF symbol = "NOPE" THEN "nope" ELSE symbol

\* StockRepository.find; NoStock for None
find(store, symbol) ==
  LET hits == {i \in 1 .. Len(store) : Upper(store[i].symbol) = Upper(symbol)}
  IN  IF symbol = "" \/ hits = {} THEN NoStock
      ELSE store[CHOOSE i \in hits : \A j \in hits : i <= j]

\* StockSelectionAgent._extract_selection for entities that name the symbol in
\* selectedStock ("" when they name none)
_extract_selection(entities) == Upper(entities.selectedStock)

\* an agent that sets the confirmation flag whatever the request carried
AttachSelectionConfirms(entities, stock) ==
  LET budget == IF entities.amount \notin {NoAmount, 0} THEN entities.amount
                ELSE stock.price
  IN  [entities EXCEPT
         !.amount = IF budget <= 0 THEN stock.price ELSE budget,
         !.recipientId = "stock::" \o stock.symbol,
         !.recipientName = stock.name \o " (" \o stock.symbol \o ")",
         !.recipientAddress = "arc1stock" \o Lower(stock.symbol),
         !.confirmation = "true"]

\* StockSelectionAgent._attach_selection: the entities it hands on.  The budget
\* is the request's amount (process copies it to stockRequest.budget) unless
\* that is missing or 0
_attach_selection(entities, stock) ==
  LET budget == IF entities.amount \notin {NoAmount, 0} THEN entities.amount
                ELSE stock.price
  IN  [entities EXCEPT
         !.amount = IF budget <= 0 THEN stock.price ELSE budget,
         !.recipientId = "stock::" \o stock.symbol,
         !.recipientName = stock.name \o " (" \o stock.symbol \o ")",
         !.recipientAddress = "arc1stock" \o Lower(stock.symbol),
         !.confirmation = IF entities.confirmation = "" THEN "true"
                          ELSE entities.confirmation]

\* StockSelectionAgent.process: the status, and the entities of the payload
StockSelectionAgent_process(store, entities) ==
  LET selection == _extract_selection(entities)
      stock == find(store, selection)
  IN  IF selection = ""
      THEN [status |-> IF store = <<>> THEN "NO_MATCHES" ELSE "AWAITING_SELECTION",
            entities |-> entities]
      ELSE IF stock = NoStock
      THEN [status |-> "INVALID_SELECTION", entities |-> entities]
      ELSE [status |-> "READY_FOR_GUARDIAN", entities |-> _attach_selection(entities, stock)]

\* the response of handle_command to the entities `sent`
CommandResponse(sent, status) ==
  [op |-> "handle_command", sent |-> sent, status |-> status, decision |-> "",
   risk_score |-> 0, payment_id |-> NoId, reason |-> NoReason]

\* handle_command: guardian_agent.process(stock_result["payload"]) and the response
HandOver(user, sent, entities, fetched, model_output, capacity) ==
  LET context == Context(user, entities, fetched)
      outcome == Decide(payments, user, entities, context.recipient, context.amount,
                        context.currency, context.balance, model_output, now)
  IN  /\ Len(outcome.store) <= capacity
      /\ payments' = outcome.store
      /\ risk' = append(risk, Assessment(user.userId, entities, context.features,
                                         model_output,
                                         _verify_recipient(context.recipient), now))
      /\ ret' = [CommandResponse(sent, "READY_FOR_GUARDIAN") EXCEPT
                   !.decision = outcome.decision,
                   !.risk_score = model_output.riskScore,
                   !.payment_id = outcome.payment_id,
                   !.reason = outcome.reason]
      /\ calls' = <<FetchCall(NoId, user, fetched)>>
                  \o (IF outcome.admin
                      THEN <<Call("notify_admin", NoId, "", "Payment flagged", 0)>>
                      ELSE <<>>)
      /\ UNCHANGED <<users, now, llm, cache, ticks, lock, writers>>

\* handle_command for a stock purchase of a known user
HandleCommand ==
  /\ Len(risk) < MaxAssessments
  /\ \E user_id \in {"u1", "u2"}, amount \in AmountInputs, confirm \in ConfirmInputs,
        selectedStock \in SymbolInputs :
       LET user == get_user(users, user_id)
           sent == [amount |-> amount, recipientId |-> "", recipientName |-> "",
                    recipientAddress |-> "",
                    confirmation |-> confirm.confirmation,
                    confirmed |-> confirm.confirmed,
                    confirm |-> confirm.confirm,
                    paymentId |-> NoId, scheduledTimestamp |-> NoTs,
                    schedule |-> EmptySchedule, selectedStock |-> selectedStock]
           stock_result == StockSelectionAgent_process(StockMarketDb, sent)
       IN  IF stock_result.status = "READY_FOR_GUARDIAN"
           THEN \E fetched \in FetchResults(user) :
                  \E model_output \in ScoreOutputs(llm, Context(user, stock_result.entities, fetched)) :
                    HandOver(user, sent, stock_result.entities, fetched, model_output,
                             MaxPayments)
           ELSE /\ ret' = CommandResponse(sent, stock_result.status)
                /\ calls' = <<>>
                /\ UNCHANGED <<users, payments, risk, now, llm, cache, ticks, lock, writers>>

NextStock == HandleCommand \/ Tick \/ Advance
SpecStock == Init /\ [][NextStock]_vars

\* ------------------------------------------------------------ properties
Last(seq) == seq[Len(seq)]

\* the step is a GuardianAgent.process call that returned a decision
Decided == Len(risk') = Len(risk) + 1

\* the step is a GuardianAgent.process call
ProcessStep == ret'.op = "process" /\ now' = now

\* the step is a PaymentScheduler.run_tick call
TickStep == ret'.op = "run_tick" /\ now' = now

\* the recorded request carries no truthy confirmation flag
Unconfirmed(request) ==
  request.confirmation # "true" /\ request.confirmed # "true" /\ request.confirm # "true"

\* C1: a process call whose entities carry no truthy confirmation, confirmed or
\* confirm flag returns AWAITING_CONFIRMATION with no payment id, whatever the
\* scorer decided, and leaves the payment store as it was.
C1_ConfirmationGate ==
  [][ (Decided /\ Unconfirmed(Last(risk').request))
        => /\ ret'.decision = "AWAITING_CONFIRMATION"
           /\ ret'.payment_id = NoId
           /\ ret'.reason.text = "Confirm payment"
           /\ payments' = payments ]_vars

\* an unconfirmed request the scorer approved, with the balance covering the
\* amount, was answered AWAITING_CONFIRMATION
C1_Witness ==
  /\ ret.op = "process"
  /\ ret.decision = "AWAITING_CONFIRMATION"
  /\ risk # <<>>
  /\ Unconfirmed(Last(risk).request)
  /\ Last(risk).model.decision = "APPROVE"
  /\ calls[1].message = "ok"
  /\ calls[1].value >= Last(risk).request.amount

\* C2: process writes a payment exactly when it returns APPROVE (the record it
\* returns the id of, in status APPROVED, and no other record changes); any
\* other outcome leaves the store as it was; run_tick never adds a record.
C2_PaymentOnlyOnApprove ==
  [][ /\ ProcessStep =>
           IF ret'.decision = "APPROVE"
           THEN /\ IndexOf(payments', ret'.payment_id) # 0
                /\ payments'[IndexOf(payments', ret'.payment_id)].status = "APPROVED"
                /\ payments'[IndexOf(payments', ret'.payment_id)].updatedAt = now
                /\ \A i \in 1 .. Len(payments) :
                     payments[i].paymentId # ret'.payment_id => payments'[i] = payments[i]
                /\ ~Unconfirmed(Last(risk').request)
                /\ Last(risk').model.decision = "APPROVE"
           ELSE payments' = payments
      /\ TickStep =>
           /\ Len(payments') = Len(payments)
           /\ \A i \in 1 .. Len(payments) : payments'[i].paymentId = payments[i].paymentId
    ]_vars

\* a confirmed, approved request created a payment, and a tick then processed it
C2_Witness ==
  /\ ret.op = "run_tick"
  /\ Len(ret.processed) > 0
  /\ risk # <<>>
  /\ Last(risk).model.decision = "APPROVE"
  /\ Len(payments) = 1

\* C3: a confirmed request the scorer approved, whose fetched balance is below
\* the amount, is answered DENY "Insufficient balance at approval time" and no
\* payment is persisted.
C3_InsufficientBalanceDenied ==
  [][ ( /\ Decided
        /\ ~Unconfirmed(Last(risk').request)
        /\ Last(risk').model.decision = "APPROVE"
        /\ calls'[1].message = "ok"
        /\ calls'[1].value < Last(risk').request.amount )
        => /\ ret'.decision = "DENY"
           /\ ret'.reason.text = "Insufficient balance at approval time"
           /\ ret'.payment_id = NoId
           /\ payments' = payments ]_vars

\* such a request was denied for its balance
C3_Witness ==
  /\ ret.op = "process"
  /\ ret.decision = "DENY"
  /\ ret.reason.text = "Insufficient balance at approval time"
  /\ Last(risk).model.decision = "APPROVE"
  /\ calls[1].message = "ok"
  /\ calls[1].value < Last(risk).request.amount
  /\ payments = <<>>

\* what one tick did to the payment at position i of the store
CallsFor(i, api) ==
  {k \in 1 .. Len(calls') : calls'[k].api = api /\ calls'[k].paymentId = payments[i].paymentId}
ActedOn(i) ==
  payments'[i] # payments[i] \/ \E k \in 1 .. Len(calls') : calls'[k].paymentId = payments[i].paymentId
Succeeded(i) ==
  \E k \in 1 .. Len(ret'.processed) :
    ret'.processed[k] = [paymentId |-> payments[i].paymentId, success |-> TRUE]
\* due, as the specification words it
DueAt(payment, clock) ==
  /\ payment.status \in {"APPROVED", "SCHEDULED"}
  /\ \/ payment.scheduledTimestamp = NoTs
     \/ payment.scheduledTimestamp >= 0 /\ payment.scheduledTimestamp <= clock

\* C4: over any sequence of process and run_tick calls a persisted payment stays
\* in the store and its status changes only from APPROVED or SCHEDULED to
\* EXECUTED, SCHEDULED or FAILED; a payment that reached EXECUTED or FAILED is
\* never moved back, also not by an approval that carries its paymentId.
C4_StatusLegality ==
  [][ \A i \in 1 .. Len(payments) :
        LET j == IndexOf(payments', payments[i].paymentId)
        IN  /\ j # 0
            /\ payments'[j].status # payments[i].status
                 => /\ payments[i].status \in {"APPROVED", "SCHEDULED"}
                    /\ payments'[j].status \in {"EXECUTED", "SCHEDULED", "FAILED"} ]_vars

\* C5: run_tick acts on a payment (changes its record or makes a call for it)
\* if and only if its status is APPROVED or SCHEDULED and its scheduledTimestamp
\* is absent or not later than now; EXECUTED and FAILED payments and payments
\* scheduled in the future are left untouched.
C5_DueSelection ==
  [][ TickStep => \A i \in 1 .. Len(payments) :
                    /\ ActedOn(i) <=> DueAt(payments[i], now)
                    /\ ~DueAt(payments[i], now) => payments'[i] = payments[i] ]_vars

C5_Witness ==
  /\ ret.op = "run_tick"
  /\ Len(ret.processed) = 1
  /\ Len(payments) = 1
  /\ payments[1].updatedAt = now
  /\ payments[1].lastExecutedAt = now
  /\ payments[1].status = "EXECUTED"
  /\ payments[1].scheduledTimestamp = now

\* C6: after a tick fails a due payment for insufficient funds the payment is
\* still due, with the scheduledTimestamp it had, so that the next tick selects
\* it again.
C6_HotRetry ==
  [][ TickStep => \A i \in 1 .. Len(payments) :
                    ( /\ DueAt(payments[i], now)
                      /\ payments'[i].failureReason = "FAILED_INSUFFICIENT_FUNDS"
                      /\ CallsFor(i, "execute_payment") = {} )
                      => /\ DueAt(payments'[i], now)
                         /\ payments'[i].scheduledTimestamp = payments[i].scheduledTimestamp ]_vars

\* the balance the tick fetched for the payment at position i falls short
FetchedShort(i) ==
  \E k \in CallsFor(i, "fetch_balance") :
    calls'[k].message # "ok" \/ calls'[k].value < payments[i].amount

\* C7: in a tick, a due payment of an existing user whose amount is not positive,
\* or whose fetched balance is below the amount or could not be fetched, ends
\* FAILED with failureReason FAILED_INSUFFICIENT_FUNDS, the user is notified, the
\* execution engine is not called for it, and the due payments after it are
\* still acted on.
C7_BalancePreCheck ==
  [][ TickStep => \A i \in 1 .. Len(payments) :
                    ( /\ DueAt(payments[i], now)
                      /\ get_user(users, payments[i].userId) # NoUser
                      /\ (payments[i].amount <= 0 \/ FetchedShort(i)) )
                      => /\ payments'[i].status = "FAILED"
                         /\ payments'[i].failureReason = "FAILED_INSUFFICIENT_FUNDS"
                         /\ \E k \in CallsFor(i, "notify_user") :
                              /\ calls'[k].userId = payments[i].userId
                              /\ calls'[k].message = "FAILED_INSUFFICIENT_FUNDS"
                         /\ CallsFor(i, "execute_payment") = {}
                         /\ \A j \in i + 1 .. Len(payments) :
                              DueAt(payments[j], now) => ActedOn(j) ]_vars

C7_Witness ==
  /\ ret.op = "run_tick"
  /\ Len(payments) = 2
  /\ payments[1].status = "FAILED"
  /\ payments[1].failureReason = "FAILED_INSUFFICIENT_FUNDS"
  /\ payments[1].amount > 0
  /\ payments[1].updatedAt = now
  /\ payments[2].status = "EXECUTED"
  /\ payments[2].lastExecutedAt = now
  /\ \E k \in 1 .. Len(calls) :
       /\ calls[k].api = "fetch_balance"
       /\ calls[k].paymentId = payments[1].paymentId
       /\ calls[k].message = "ok"
       /\ calls[k].value < payments[1].amount
  /\ \E k \in 1 .. Len(calls) :
       calls[k].api = "notify_user" /\ calls[k].paymentId = payments[1].paymentId

\* C8: a payment with empty conditions is handed to the execution engine at most
\* once in a tick; when that execution succeeds its status is EXECUTED with
\* transactionId and lastExecutedAt set; once EXECUTED, no tick processes it: its
\* record stays as it is and no call is made for it.
C8_OneTimeTerminal ==
  [][ TickStep => \A i \in 1 .. Len(payments) :
                    payments[i].conditions = EmptySchedule
                      => /\ Cardinality(CallsFor(i, "execute_payment")) <= 1
                         /\ Succeeded(i)
                              => /\ payments[i].status # "EXECUTED"
                                 /\ payments'[i].status = "EXECUTED"
                                 /\ payments'[i].transactionId # ""
                                 /\ payments'[i].lastExecutedAt = now
                         /\ payments[i].status = "EXECUTED"
                              => /\ payments'[i] = payments[i]
                                 /\ ~ActedOn(i)
                                 /\ ~Succeeded(i) ]_vars

C8_Witness ==
  /\ ret.op = "run_tick"
  /\ ret.processed = <<>>
  /\ calls = <<>>
  /\ Len(payments) = 1
  /\ payments[1].conditions = EmptySchedule
  /\ payments[1].status = "EXECUTED"
  /\ payments[1].transactionId # ""
  /\ payments[1].lastExecutedAt # NoTs
  /\ payments[1].lastExecutedAt < now

IntervalPayment(payment) ==
  payment.conditions # EmptySchedule /\ payment.conditions.frequency = "interval"

\* C9 as stated: after a successful execution of a recurring interval payment in
\* a tick its status is SCHEDULED, lastExecutedAt is set and the new
\* scheduledTimestamp is the previous scheduledTimestamp plus intervalSeconds,
\* whenever the tick ran.
C9_NextFromPrevious ==
  [][ TickStep => \A i \in 1 .. Len(payments) :
                    (IntervalPayment(payments[i]) /\ Succeeded(i))
                      => /\ payments'[i].status = "SCHEDULED"
                         /\ payments'[i].lastExecutedAt # NoTs
                         /\ payments'[i].scheduledTimestamp =
                              payments[i].scheduledTimestamp
                                + payments[i].conditions.intervalSeconds ]_vars

\* C9 amended: after a successful execution of a recurring interval payment in a
\* tick its status is SCHEDULED, lastExecutedAt is the time of the tick, and the
\* new scheduledTimestamp is the time of the tick plus intervalSeconds when
\* intervalSeconds is positive; otherwise scheduledTimestamp is left as it was.
C9_NextFromTickTime ==
  [][ TickStep => \A i \in 1 .. Len(payments) :
                    (IntervalPayment(payments[i]) /\ Succeeded(i))
                      => /\ payments'[i].status = "SCHEDULED"
                         /\ payments'[i].lastExecutedAt = now
                         /\ payments'[i].scheduledTimestamp =
                              IF payments[i].conditions.intervalSeconds > 0
                              THEN now + payments[i].conditions.intervalSeconds
                              ELSE payments[i].scheduledTimestamp ]_vars

C9_Witness ==
  /\ ret.op = "run_tick"
  /\ Len(ret.processed) = 1
  /\ ret.processed[1].success
  /\ Len(payments) = 1
  /\ IntervalPayment(payments[1])
  /\ payments[1].conditions.intervalSeconds > 0
  /\ payments[1].status = "SCHEDULED"
  /\ payments[1].lastExecutedAt = now
  /\ payments[1].createdAt < now
  /\ payments[1].scheduledTimestamp = now + payments[1].conditions.intervalSeconds

\* C10: in every reachable state every SCHEDULED payment carries a
\* scheduledTimestamp strictly later than its lastExecutedAt, whatever conditions
\* the pipeline stored.
C10_ScheduledAfterLastRun ==
  \A i \in 1 .. Len(payments) :
    payments[i].status = "SCHEDULED"
      => /\ payments[i].lastExecutedAt # NoTs
         /\ payments[i].scheduledTimestamp >= 0
         /\ payments[i].scheduledTimestamp > payments[i].lastExecutedAt

\* C11: when a payment whose conditions are recurring executes successfully in a
\* tick and next_run has no timestamp for those conditions, the payment is
\* EXECUTED after the tick, not SCHEDULED, and so no longer due.
C11_NullNextRunExecuted ==
  [][ TickStep => \A i \in 1 .. Len(payments) :
                    ( /\ is_recurring(payments[i].conditions)
                      /\ Succeeded(i)
                      /\ next_run(payments[i].conditions, now) = NoTs )
                      => /\ payments'[i].status = "EXECUTED"
                         /\ ~DueAt(payments'[i], now) ]_vars

\* C12: whenever next_run returns a timestamp for a schedule and a reference t,
\* the timestamp is strictly greater than t; applied again to its own result it
\* returns a timestamp strictly greater than that result.
C12_NextRunMonotone ==
  (ret.op = "next_run" /\ ret.result # NoTs)
    => /\ parse_iso(ret.result) > ret.reference
       /\ ret.depth > 1 => ret.reference > now

C12_Witness ==
  /\ ret.op = "next_run"
  /\ ret.depth = 2
  /\ ret.schedule.frequency = "monthly"
  /\ ret.schedule.dayOfMonth = 31
  /\ ret.result # NoTs
  /\ ret.result > ret.reference
  /\ ret.reference > now
  /\ now % SecondsPerDay # 0

\* the calendar day an instant falls on: its day of the month, and the day a
\* monthly schedule for dayOfMonth runs on in that month
DayOfMonthAt(instant) ==
  LET dayNumber == instant \div SecondsPerDay
      ym == MonthOf(dayNumber, EpochYear, 1)
  IN  dayNumber - DaysBefore(ym.year, ym.month) + 1
RunDayAt(instant, dayOfMonth) ==
  LET ym == MonthOf(instant \div SecondsPerDay, EpochYear, 1)
  IN  IF dayOfMonth < MonthRange(ym.year, ym.month) THEN dayOfMonth
      ELSE MonthRange(ym.year, ym.month)
Feb15 == MakeInstant(EpochYear, 2, 15, 0)
Feb29 == MakeInstant(EpochYear, 2, 29, 0)

\* C13: for frequency monthly with a dayOfMonth of at least 1, next_run returns
\* the earliest instant strictly after the reference that has the reference's
\* time of day and falls on day min(dayOfMonth, last day of its month); from
\* 15 Feb 2024 with dayOfMonth 31 that is 29 Feb 2024.
C13_MonthlyClamp ==
  ( /\ ret.op = "next_run"
    /\ ret.schedule.frequency = "monthly"
    /\ ret.schedule.dayOfMonth >= 1 )
    => LET result == parse_iso(ret.result)
           timeOfDay == ret.reference % SecondsPerDay
       IN  /\ ret.result # NoTs
           /\ result > ret.reference
           /\ result % SecondsPerDay = timeOfDay
           /\ DayOfMonthAt(result) = RunDayAt(result, ret.schedule.dayOfMonth)
           /\ \A day \in ret.reference \div SecondsPerDay .. result \div SecondsPerDay - 1 :
                LET earlier == day * SecondsPerDay + timeOfDay
                IN  ~ /\ earlier > ret.reference
                      /\ DayOfMonthAt(earlier) = RunDayAt(earlier, ret.schedule.dayOfMonth)
           /\ (ret.schedule.dayOfMonth = 31 /\ ret.reference = Feb15 + timeOfDay)
                => result = Feb29 + timeOfDay

C13_Witness ==
  /\ ret.op = "next_run"
  /\ ret.schedule.frequency = "monthly"
  /\ ret.schedule.dayOfMonth = 31
  /\ ret.reference = Feb15 + 43200
  /\ ret.result = Feb29 + 43200

\* the schedules the specification lists as having no next run
ListedAsNull(schedule) ==
  \/ schedule = EmptySchedule
  \/ schedule.frequency \notin {"interval", "monthly"}
  \/ schedule.frequency = "interval" /\ schedule.intervalSeconds <= 0
PositiveInterval(schedule) ==
  /\ schedule # EmptySchedule
  /\ schedule.frequency = "interval"
  /\ schedule.intervalSeconds > 0

\* C14 as stated: next_run returns reference + intervalSeconds for frequency
\* interval with intervalSeconds > 0, and returns null exactly when the schedule
\* is empty, the frequency is neither interval nor monthly, or the frequency is
\* interval with intervalSeconds <= 0.
C14_NullExactlyListed ==
  ret.op = "next_run"
    => /\ PositiveInterval(ret.schedule)
            => parse_iso(ret.result) = ret.reference + ret.schedule.intervalSeconds
       /\ ret.result = NoTs <=> ListedAsNull(ret.schedule)

\* C14 amended: as stated, with one more case of null: frequency monthly with a
\* dayOfMonth that int() rejects.
C14_NullListedOrBadDay ==
  ret.op = "next_run"
    => /\ PositiveInterval(ret.schedule)
            => parse_iso(ret.result) = ret.reference + ret.schedule.intervalSeconds
       /\ ret.result = NoTs
            <=> \/ ListedAsNull(ret.schedule)
                \/ ret.schedule.frequency = "monthly" /\ ret.schedule.dayOfMonth = NoDay

C14_Witness ==
  /\ ret.op = "next_run"
  /\ ret.depth = 2
  /\ PositiveInterval(ret.schedule)
  /\ ret.schedule.intervalSeconds = 5
  /\ ret.result = now + 10

Decisions == {"AWAITING_CONFIRMATION", "APPROVE", "DENY", "FLAG_FOR_REVIEW"}

\* C15: every GuardianAgent.process call that returns a decision appends exactly
\* one record to the risk-assessment store, the one of that evaluation, and a
\* call that raises appends none; an unconfirmed submission followed by its
\* confirmed re-submission leaves two records.
C15_OneAssessmentPerDecision ==
  [][ ProcessStep
        => IF ret'.error = ""
           THEN /\ ret'.decision \in Decisions
                /\ Len(risk') = Len(risk) + 1
                /\ Last(risk').model.riskScore = ret'.risk_score
                /\ Last(risk').timestamp = now
                /\ Unconfirmed(Last(risk').request) <=> ret'.decision = "AWAITING_CONFIRMATION"
           ELSE risk' = risk ]_vars

C15_Witness ==
  /\ ret.op = "process"
  /\ ret.decision = "APPROVE"
  /\ Len(risk) = 2
  /\ Unconfirmed(risk[1].request)
  /\ ~Unconfirmed(risk[2].request)
  /\ risk[1].request.amount = risk[2].request.amount
  /\ risk[1].request.userId = risk[2].request.userId
  /\ risk[1].model = risk[2].model

\* C16: the risk-assessment store is append-only: over every guardian, scheduler
\* and validator operation its earlier contents stay an unchanged prefix of its
\* contents (no record is modified, reordered or removed).
C16_RiskAppendOnly ==
  [][ /\ Len(risk') >= Len(risk)
      /\ SubSeq(risk', 1, Len(risk)) = risk ]_vars

C16_Witness ==
  /\ ret.op = "validate"
  /\ Len(risk) = 2
  /\ risk[1].timestamp < risk[2].timestamp
  /\ risk[1].model.decision = "APPROVE"
  /\ risk[2].model.decision # "APPROVE"
  /\ Len(payments) = 1
  /\ payments[1].status = "EXECUTED"

\* C17: every payment record in the payment store has amount > 0, whatever
\* amounts the process calls carried and whatever ticks ran.
C17_AmountPositive ==
  \A i \in 1 .. Len(payments) : payments[i].amount > 0

Notified(user_id) ==
  \E k \in 1 .. Len(calls) : calls[k].api = "notify_user" /\ calls[k].userId = user_id
FetchedShortOf(fetched, amount) == fetched.kind = "ok" /\ fetched.balance < amount

\* C18 as stated: ensure_sufficient(user, amount) returns false and notifies the
\* user when the balance is less than the amount and returns true in every other
\* case, also when the user has no linked account or the fetch does not succeed.
C18_TrueUnlessShort ==
  ret.op = "ensure_sufficient"
    => IF FetchedShortOf(ret.fetched, ret.amount)
       THEN ~ret.result /\ Notified(ret.userId)
       ELSE ret.result

\* C18 amended: ensure_sufficient returns true exactly when the balance was
\* fetched and is at least the amount; it returns false and notifies the user
\* when the fetched balance is less than the amount, and returns false without a
\* notification when the user has no linked account or the fetch failed.
C18_TrueOnlyWhenCovered ==
  ret.op = "ensure_sufficient"
    => /\ ret.result <=> (ret.fetched.kind = "ok" /\ ret.fetched.balance >= ret.amount)
       /\ Notified(ret.userId) <=> FetchedShortOf(ret.fetched, ret.amount)

C18_Witness ==
  /\ ret.op = "ensure_sufficient"
  /\ ret.fetched.kind = "failed"
  /\ ret.amount > 0
  /\ ~ret.result
  /\ ~Notified(ret.userId)
  /\ cache[ret.userId] # NoBalance

\* C19: detect_drop compares the current balance with the balance the previous
\* fetch cached: when the cache holds p > 0 for the user and the balance fetched
\* now is c with (p - c) / p >= threshold, the call notifies the user.
C19_DropNotified ==
  [][ ( /\ ret'.op = "detect_drop"
        /\ cache[ret'.userId] > 0
        /\ ret'.fetched.kind = "ok"
        /\ (cache[ret'.userId] - ret'.fetched.balance) * 100
             >= ret'.threshold * cache[ret'.userId] )
        => \E k \in 1 .. Len(calls') :
             calls'[k].api = "notify_user" /\ calls'[k].userId = ret'.userId ]_vars

\* C20: in a tick, a due payment whose owner is not in the user store ends FAILED
\* with failureReason "User missing"; no user is notified about it, no balance is
\* fetched and the execution engine is not called for it, and every other due
\* payment of the tick is still acted on.
C20_UserMissing ==
  [][ TickStep => \A i \in 1 .. Len(payments) :
                    ( /\ DueAt(payments[i], now)
                      /\ get_user(users, payments[i].userId) = NoUser )
                      => /\ payments'[i].status = "FAILED"
                         /\ payments'[i].failureReason = "User missing"
                         /\ payments'[i].updatedAt = now
                         /\ CallsFor(i, "notify_user") = {}
                         /\ CallsFor(i, "fetch_balance") = {}
                         /\ CallsFor(i, "execute_payment") = {}
                         /\ \A k \in 1 .. Len(calls') :
                              calls'[k].userId # payments[i].userId
                         /\ \A j \in 1 .. Len(payments) :
                              (j # i /\ DueAt(payments[j], now)) => ActedOn(j) ]_vars

C20_Witness ==
  /\ ret.op = "run_tick"
  /\ Len(payments) = 2
  /\ payments[1].userId = "ghost"
  /\ payments[1].status = "FAILED"
  /\ payments[1].failureReason = "User missing"
  /\ payments[1].updatedAt = now
  /\ payments[2].status = "EXECUTED"
  /\ payments[2].lastExecutedAt = now
  /\ Len(ret.processed) = 1
  /\ \A k \in 1 .. Len(calls) : calls[k].api # "notify_user"

\* the execution engine was called for the payment at position i and reported
\* a failure
EngineFailed(i) ==
  \E k \in 1 .. Len(ret'.processed) :
    ret'.processed[k] = [paymentId |-> payments[i].paymentId, success |-> FALSE]

\* C21: when the execution engine reports failure for a due payment, the tick
\* changes only status (to FAILED), failureReason (the engine's error string) and
\* updatedAt of that payment and notifies the user; scheduledTimestamp,
\* conditions, amount, recipient, transactionId and lastExecutedAt stay as they
\* were, also for recurring payments.
C21_FailureFrame ==
  [][ TickStep => \A i \in 1 .. Len(payments) :
                    EngineFailed(i)
                      => /\ payments'[i] =
                              [payments[i] EXCEPT !.status = "FAILED",
                                                  !.failureReason = ExecFailed.error,
                                                  !.updatedAt = now]
                         /\ \E k \in CallsFor(i, "notify_user") :
                              /\ calls'[k].userId = payments[i].userId
                              /\ calls'[k].message = ExecFailed.error ]_vars

\* a recurring payment that executed once and was rescheduled failed in the
\* engine at its next run
C21_Witness ==
  /\ ret.op = "run_tick"
  /\ Len(ret.processed) = 1
  /\ ~ret.processed[1].success
  /\ Len(payments) = 1
  /\ is_recurring(payments[1].conditions)
  /\ payments[1].status = "FAILED"
  /\ payments[1].failureReason = ExecFailed.error
  /\ payments[1].updatedAt = now
  /\ payments[1].transactionId # ""
  /\ payments[1].lastExecutedAt # NoTs
  /\ payments[1].lastExecutedAt < now
  /\ payments[1].scheduledTimestamp = now

\* the payment tick t handles in this step
Handled(t) == ticks[t].listed[ticks[t].i]
HandlesOne(t) ==
  /\ ticks[t].pc = "running"
  /\ ticks[t].i <= Len(ticks[t].listed)
  /\ ticks'[t].i = ticks[t].i + 1
ReportedDone(t, payment_id) ==
  \E k \in 1 .. Len(ticks[t].processed) :
    ticks[t].processed[k] = [paymentId |-> payment_id, success |-> TRUE]

\* C22: a tick handles every payment that was due in the list it read, whatever
\* the store says about the payment by then: it fetches the owner's balance and,
\* when the balance covers the amount, hands the payment to the execution
\* engine; no lock, lease or claim step intervenes.  So two overlapping ticks can
\* both execute one due one-time payment.
C22_NoClaimStep ==
  [][ \A t \in TickIds :
        ( /\ HandlesOne(t)
          /\ DueAt(Handled(t), now)
          /\ Handled(t).amount > 0
          /\ get_user(users, Handled(t).userId) # NoUser )
          => \E k \in 1 .. Len(calls') :
               /\ calls'[k].api = "fetch_balance"
               /\ calls'[k].paymentId = Handled(t).paymentId
               /\ IF calls'[k].message = "ok" /\ calls'[k].value >= Handled(t).amount
                  THEN /\ \E e \in 1 .. Len(calls') :
                            /\ calls'[e].api = "execute_payment"
                            /\ calls'[e].paymentId = Handled(t).paymentId
                       /\ Len(ticks'[t].processed) = Len(ticks[t].processed) + 1
                  ELSE /\ ticks'[t].processed = ticks[t].processed
                       /\ payments'[IndexOf(payments', Handled(t).paymentId)].status
                            = "FAILED" ]_vars

\* both ticks returned, and each reports a successful execution of the same
\* one-time payment
C22_Witness ==
  /\ \A t \in TickIds : ticks[t].pc = "done" /\ ReportedDone(t, payments[1].paymentId)
  /\ payments[1].conditions = EmptySchedule
  /\ payments[1].status = "EXECUTED"

\* thread w has written its update
Wrote(w) == writers[w].pc \in {"saved", "done"}
\* no other thread's call names the payment of thread w's call
AloneOnPayment(w) ==
  \A v \in WriterIds \ {w} :
    writers[v].mutator.path = "paymentSchedule"
      => writers[v].mutator.paymentId # writers[w].mutator.paymentId
Occurrences(seq, record) == Cardinality({k \in 1 .. Len(seq) : seq[k] = record})

\* C23: store writes on one path are serialized, so no update is lost: once n
\* threads have appended, the risk store holds all n records (each once); an
\* update_status or upsert that was written is in the payment store as long as
\* no other thread's call names the same payment, whatever the other threads
\* wrote to other payments meanwhile; and one thread at most is between lock
\* and unlock of a path.
C23_NoLostUpdate ==
  /\ Len(risk) = Cardinality({w \in WriterIds : Wrote(w) /\ writers[w].mutator.name = "append"})
  /\ \A w \in WriterIds :
       Wrote(w) =>
         LET mutator == writers[w].mutator
             idx == IndexOf(payments, mutator.paymentId)
         IN  /\ mutator.name = "append" => Occurrences(risk, mutator.record) = 1
             /\ (mutator.name = "update_status" /\ AloneOnPayment(w))
                  => payments[idx].status = mutator.status
             /\ (mutator.name = "upsert" /\ AloneOnPayment(w))
                  => /\ idx # 0
                     /\ payments[idx].amount = mutator.record.amount
                     /\ payments[idx].status = "APPROVED"
  /\ \A v, w \in WriterIds :
       ( /\ v # w
         /\ writers[v].pc \in {"locked", "loaded", "saved"}
         /\ writers[w].pc \in {"locked", "loaded", "saved"} )
         => writers[v].mutator.path # writers[w].mutator.path

\* two threads called update_status on different payments and both updates are
\* in the store
C23_Witness ==
  /\ \A w \in WriterIds : writers[w].pc = "done"
  /\ writers[1].mutator.name = "update_status"
  /\ writers[2].mutator.name = "update_status"
  /\ writers[1].mutator.paymentId = 1
  /\ writers[2].mutator.paymentId = 2
  /\ payments[1].status = "FAILED"
  /\ payments[2].status = "EXECUTED"

ErrorMessages == {"userId is required", "Unknown user", "Payment amount missing"}

\* C24: GuardianAgent.process raises when the userId is absent or names no
\* stored user and when the entities carry no amount (every call that returns a
\* decision has a stored user and an amount), and a call that raises leaves the
\* payment store and the risk-assessment store as they were and sends nothing.
C24_ErrorsLeaveNoTrace ==
  [][ ProcessStep
        => IF ret'.error # ""
           THEN /\ ret'.error \in ErrorMessages
                /\ ret'.decision = ""
                /\ ret'.payment_id = NoId
                /\ payments' = payments
                /\ risk' = risk
                /\ calls' = <<>>
           ELSE /\ Decided
                /\ Last(risk').request.userId # ""
                /\ get_user(users, Last(risk').request.userId) # NoUser
                /\ Last(risk').request.amount # NoAmount ]_vars

\* a request without an amount was refused while both stores held records
C24_Witness ==
  /\ ret.op = "process"
  /\ ret.error = "Payment amount missing"
  /\ calls = <<>>
  /\ Len(payments) = 1
  /\ Len(risk) = 1
  /\ payments[1].status = "APPROVED"

\* the entities of a recorded request
EntitiesOf(request) ==
  [amount |-> request.amount, recipientId |-> request.recipientId,
   recipientName |-> request.recipientName,
   recipientAddress |-> request.recipientAddress,
   confirmation |-> request.confirmation, confirmed |-> request.confirmed,
   confirm |-> request.confirm, paymentId |-> request.paymentId,
   scheduledTimestamp |-> request.scheduledTimestamp, schedule |-> request.schedule]

\* what process does with the payment store and returns for these entities,
\* given the balance it fetched and what the scorer answered
OutcomeOf(user, entities, balance, model_output) ==
  LET recipient == _resolve_recipient(user, entities)
  IN  Decide(payments, user, entities, recipient, entities.amount, recipient.currency,
             balance, model_output, now)

\* C25: recipient verification is recorded, not enforced: a process call returns
\* the decision, risk score, payment id and reason, and leaves the payment
\* store, exactly as the same call with any other recipientAddress (verified,
\* unverified or unknown) would, given the same balance and scorer answer; the
\* heuristic scorer answers the same for both; the appended assessment carries
\* the verification outcome of the call's own recipient.
C25_VerificationNotEnforced ==
  [][ (ProcessStep /\ Decided)
        => LET record == Last(risk')
               user == get_user(users, record.request.userId)
               entities == EntitiesOf(record.request)
               fetched == [kind |-> calls'[1].message, balance |-> calls'[1].value]
               balance == IF fetched.kind = "ok" THEN fetched.balance ELSE 0
           IN  /\ record.verification = _verify_recipient(_resolve_recipient(user, entities))
               /\ \A address \in AddressInputs :
                    LET other == [entities EXCEPT !.recipientAddress = address]
                        twin == OutcomeOf(user, other, balance, record.model)
                    IN  /\ ret'.decision = twin.decision
                        /\ ret'.payment_id = twin.payment_id
                        /\ ret'.reason = twin.reason
                        /\ payments' = twin.store
                        /\ ret'.risk_score = record.model.riskScore
                        /\ llm = "heuristic"
                             => record.model = HeuristicScoreRisk(Context(user, other, fetched))
    ]_vars

\* a confirmed payment to an unknown recipient whose address failed verification
\* was approved and stored
C25_Witness ==
  /\ ret.op = "process"
  /\ ret.decision = "APPROVE"
  /\ risk # <<>>
  /\ Last(risk).verification = "unverified"
  /\ Last(risk).request.recipientId = "bob"
  /\ Len(payments) = 1
  /\ payments[1].recipient = "bob"
  /\ payments[1].status = "APPROVED"

\* the reason string of AWAITING_CONFIRMATION for a recorded request
ConfirmReason(request) ==
  LET recipient == _resolve_recipient(get_user(users, request.userId), EntitiesOf(request))
  IN  [text |-> "Confirm payment", amount |-> request.amount,
       currency |-> recipient.currency, name |-> recipient.name,
       recipientId |-> recipient.recipientId]

\* C26: every submission of unconfirmed entities is answered
\* AWAITING_CONFIRMATION with the reason string its user and entities determine
\* and creates no payment, so two submissions of the same entities for the same
\* user get identical reasons; with the heuristic scorer the second one's risk
\* score is the one recorded for the first.
C26_GateIdempotent ==
  [][ (ProcessStep /\ Decided /\ Unconfirmed(Last(risk').request))
        => /\ ret'.decision = "AWAITING_CONFIRMATION"
           /\ ret'.reason = ConfirmReason(Last(risk').request)
           /\ ret'.payment_id = NoId
           /\ payments' = payments
           /\ \A k \in 1 .. Len(risk) :
                (risk[k].request = Last(risk').request /\ llm = "heuristic")
                  => /\ ret'.risk_score = risk[k].model.riskScore
                     /\ Last(risk').model = risk[k].model ]_vars

\* the same unconfirmed entities were submitted twice, scored by the heuristic
C26_Witness ==
  /\ ret.op = "process"
  /\ ret.decision = "AWAITING_CONFIRMATION"
  /\ llm = "heuristic"
  /\ Len(risk) = 2
  /\ risk[1].request = risk[2].request
  /\ Unconfirmed(risk[2].request)
  /\ risk[2].request.amount > 0
  /\ ret.risk_score = risk[1].model.riskScore
  /\ payments = <<>>

\* the scheduledTimestamp the specification gives a payment approved at `clock`
\* without a scheduledTimestamp of the caller's
InitialRun(schedule, clock) ==
  IF schedule = EmptySchedule THEN clock + DefaultDelay
  ELSE IF next_run(schedule, clock) # NoTs THEN parse_iso(next_run(schedule, clock))
  ELSE clock + DefaultDelay

\* C27: the payment a confirmed, approved request with a covering balance
\* creates has status APPROVED; when the request carried no scheduledTimestamp,
\* its scheduledTimestamp is strictly later than the time of creation: now + 5
\* minutes without a schedule, otherwise next_run(schedule), or now + 5 minutes
\* when that is null; a tick at the instant of creation does not select it.
C27_InitialTimestamp ==
  [][ (ProcessStep /\ ret'.decision = "APPROVE")
        => LET request == Last(risk').request
               created == payments'[IndexOf(payments', ret'.payment_id)]
           IN  /\ ret'.payment_id # NoId
               /\ created.status = "APPROVED"
               /\ created.conditions = request.schedule
               /\ request.scheduledTimestamp = NoTs
                    => /\ parse_iso(created.scheduledTimestamp)
                            = InitialRun(request.schedule, now)
                       /\ parse_iso(created.scheduledTimestamp) > now
                       /\ request.schedule.frequency \notin {"interval", "monthly"}
                            => parse_iso(created.scheduledTimestamp) = now + 300
                       /\ ~DueAt(created, now)
                       /\ ~_is_due(created, now) ]_vars

\* a payment approved with a schedule that has no next run got the default
C27_Witness ==
  /\ ret.op = "process"
  /\ ret.decision = "APPROVE"
  /\ Last(risk).request.scheduledTimestamp = NoTs
  /\ Last(risk).request.schedule # EmptySchedule
  /\ next_run(Last(risk).request.schedule, now) = NoTs
  /\ Len(payments) = 1
  /\ payments[1].status = "APPROVED"
  /\ payments[1].scheduledTimestamp = now + 300
  /\ now > 0

\* the entries run_tick returned for the payment at position i of the store
EntriesFor(i) ==
  {k \in 1 .. Len(ret'.processed) : ret'.processed[k].paymentId = payments[i].paymentId}

\* C28 as stated: run_tick returns exactly one entry for each due payment, that
\* is for every payment whose status the tick set to EXECUTED, SCHEDULED or
\* FAILED, and no entry for a payment that was not due.
C28_EntryPerDuePayment ==
  [][ TickStep => \A i \in 1 .. Len(payments) :
                    Cardinality(EntriesFor(i)) = IF DueAt(payments[i], now) THEN 1 ELSE 0 ]_vars

\* C28 amended: run_tick returns exactly one entry for each due payment it
\* handed to the execution engine, with that execution's result (success: the
\* payment is EXECUTED or SCHEDULED, failure: FAILED), in the order of the store,
\* and no entry for a payment that was not due or that it failed before the
\* execution (owner missing, balance pre-check).
C28_EntryPerExecution ==
  [][ TickStep =>
        /\ \A i \in 1 .. Len(payments) :
             /\ Cardinality(EntriesFor(i)) =
                  IF CallsFor(i, "execute_payment") # {} THEN 1 ELSE 0
             /\ ~DueAt(payments[i], now) => EntriesFor(i) = {}
             /\ Succeeded(i) => payments'[i].status \in {"EXECUTED", "SCHEDULED"}
             /\ EngineFailed(i) => payments'[i].status = "FAILED"
             /\ ( /\ DueAt(payments[i], now)
                  /\ payments'[i].failureReason \in {"User missing", "FAILED_INSUFFICIENT_FUNDS"}
                  /\ payments'[i].updatedAt = now
                  /\ payments'[i] # payments[i] )
                  => EntriesFor(i) = {}
        /\ \A k \in 1 .. Len(ret'.processed) :
             /\ IndexOf(payments, ret'.processed[k].paymentId) # 0
             /\ \A l \in k + 1 .. Len(ret'.processed) :
                  IndexOf(payments, ret'.processed[k].paymentId)
                    < IndexOf(payments, ret'.processed[l].paymentId) ]_vars

\* a tick failed the first due payment in the balance pre-check and executed the
\* second: it returned the second one's entry only
C28_Witness ==
  /\ ret.op = "run_tick"
  /\ Len(payments) = 2
  /\ payments[1].status = "FAILED"
  /\ payments[1].failureReason = "FAILED_INSUFFICIENT_FUNDS"
  /\ payments[1].updatedAt = now
  /\ payments[2].status = "EXECUTED"
  /\ payments[2].lastExecutedAt = now
  /\ ret.processed = <<[paymentId |-> payments[2].paymentId, success |-> TRUE]>>

\* C29: no guardian, scheduler or validator operation removes a record from the
\* payment store: the store never gets shorter and every record keeps its place
\* and its paymentId, so the paymentIds present only grow; a payment in EXECUTED
\* or FAILED stays in the store, untouched by every tick and every validation.
C29_NeverDeleted ==
  [][ /\ Len(payments') >= Len(payments)
      /\ \A i \in 1 .. Len(payments) :
           /\ payments'[i].paymentId = payments[i].paymentId
           /\ payments'[i].createdAt = payments[i].createdAt
           /\ (payments[i].status \in {"EXECUTED", "FAILED"} /\ ~ProcessStep)
                => payments'[i] = payments[i] ]_vars

\* an approval added a payment to a store that held an executed one, and both
\* are there at a later validation
C29_Witness ==
  /\ ret.op = "validate"
  /\ Len(payments) = 2
  /\ payments[1].status = "EXECUTED"
  /\ payments[1].updatedAt < payments[2].createdAt
  /\ payments[2].status = "FAILED"

\* min(1, amount / max_amount) > percent / 100
RatioAbove(amount, max_amount, percent) ==
  IF max_amount > 0
  THEN (IF amount >= max_amount THEN 100 > percent ELSE 100 * amount > percent * max_amount)
  ELSE (IF amount <= max_amount THEN 100 > percent ELSE 100 * amount < percent * max_amount)

\* C30: the heuristic decides DENY when min(1, amount / max_amount) > 0.85,
\* FLAG_FOR_REVIEW when it is in (0.6, 0.85] and APPROVE when it is <= 0.6, and
\* the riskScore it returns lies in [0, 1] for every amount the guardian can
\* pass, negative amounts included.
C30_HeuristicRange ==
  ret.op = "score_risk"
    => /\ ret.result.decision =
            IF RatioAbove(ret.amount, ret.max_amount, 85) THEN "DENY"
            ELSE IF RatioAbove(ret.amount, ret.max_amount, 60) THEN "FLAG_FOR_REVIEW"
            ELSE "APPROVE"
       /\ ret.result.riskScore >= 0
       /\ ret.result.riskScore <= 100

\* the assessment k records the evaluation that wrote payment i as it is stored:
\* a confirmed request of the payment's user for its amount and recipient, under
\* the payment's id or under no id, made no later than the payment was written
CreatedBy(store, assessments, i, k) ==
  /\ assessments[k].request.userId = store[i].userId
  /\ assessments[k].request.amount = store[i].amount
  /\ assessments[k].request.recipientId = store[i].recipient
  /\ assessments[k].request.paymentId \in {NoId, store[i].paymentId}
  /\ assessments[k].timestamp <= store[i].updatedAt
  /\ ~Unconfirmed(assessments[k].request)

\* the step writes payment i through upsert: a record in status APPROVED that
\* was not stored like that before
Upserted(i) ==
  /\ payments'[i].status = "APPROVED"
  /\ (i > Len(payments) \/ payments[i] # payments'[i])

\* C31: every payment in status EXECUTED was written by a confirmed evaluation
\* whose scorer decision was APPROVE, never by one that ended in DENY or
\* FLAG_FOR_REVIEW: a payment is written only by a process call that records
\* such an evaluation and returns APPROVE, and only a tick moves it to EXECUTED.
C31_ExecutedWereApproved ==
  /\ [](\A i \in 1 .. Len(payments) :
          payments[i].status = "EXECUTED"
            => \E k \in 1 .. Len(risk) :
                 /\ CreatedBy(payments, risk, i, k)
                 /\ risk[k].model.decision = "APPROVE")
  /\ [][ \A i \in 1 .. Len(payments') :
           /\ Upserted(i)
                => /\ Decided
                   /\ CreatedBy(payments', risk', i, Len(risk'))
                   /\ Last(risk').model.decision = "APPROVE"
                   /\ Last(risk').timestamp = payments'[i].updatedAt
                   /\ ret'.op = "process" /\ ret'.decision = "APPROVE"
                   /\ ret'.payment_id = payments'[i].paymentId
           /\ (payments'[i].status = "EXECUTED"
               /\ (i > Len(payments) \/ payments[i].status # "EXECUTED"))
                => /\ TickStep
                   /\ i <= Len(payments)
                   /\ payments[i].status \in {"APPROVED", "SCHEDULED"} ]_vars

\* an executed payment whose id was first evaluated with DENY and then approved
C31_Witness ==
  /\ Len(risk) = 2
  /\ Len(payments) >= 1
  /\ payments[1].status = "EXECUTED"
  /\ risk[1].request.paymentId = payments[1].paymentId
  /\ risk[1].model.decision = "DENY"
  /\ ~Unconfirmed(risk[1].request)
  /\ risk[2].model.decision = "APPROVE"
  /\ CreatedBy(payments, risk, 1, 2)

\* C32: ExecutionEngine.execute returns a normalized result for every response
\* of the API: on success, success is true and error is null; on failure,
\* success is false, transaction_id is null and status is "failed".  A failed
\* execution does not abort the tick: the tick returns, the payment is FAILED
\* with the engine's error, and every other due payment of the list is handled
\* in the same tick.
C32_NormalizedResult ==
  /\ [](ret.op = "execute"
          => /\ ret.result.success = ret.response.success
             /\ ret.response.success => ret.result.error = ""
             /\ ~ret.response.success
                  => /\ ret.result.transaction_id = ""
                     /\ ret.result.status = "failed")
  /\ [][ TickStep =>
           \A i \in 1 .. Len(payments) :
             EngineFailed(i)
               => /\ payments'[i].status = "FAILED"
                  /\ payments'[i].failureReason = ExecFailed.error
                  /\ \A j \in 1 .. Len(payments) :
                       (j # i /\ DueAt(payments[j], now)) => ActedOn(j) ]_vars

\* a tick whose first execution failed went on and executed the second payment
C32_Witness ==
  /\ ret.op = "run_tick"
  /\ Len(ret.processed) = 2
  /\ ~ret.processed[1].success
  /\ ret.processed[2].success
  /\ payments[1].status = "FAILED"
  /\ payments[1].failureReason = ExecFailed.error
  /\ payments[1].updatedAt = now
  /\ payments[2].status = "SCHEDULED"
  /\ payments[2].lastExecutedAt = now

\* C33: no GuardianAgent.process call, also not one for a recipient that is not
\* in the user's whitelist, and no run_tick changes the user store: the users
\* and every user's whitelistedRecipients stay as they were.
C33_UsersUntouched ==
  [][ /\ users' = users
      /\ \A i \in 1 .. Len(users) :
           users'[i].whitelistedRecipients = users[i].whitelistedRecipients ]_vars

\* a payment to a recipient the user has not whitelisted was approved and
\* executed, and the user's whitelist is what it was
C33_Witness ==
  /\ ret.op = "run_tick"
  /\ Len(payments) = 1
  /\ payments[1].status = "EXECUTED"
  /\ payments[1].recipient = "bob"
  /\ \A k \in 1 .. Len(get_user(users, payments[1].userId).whitelistedRecipients) :
       get_user(users, payments[1].userId).whitelistedRecipients[k].recipientId # "bob"
  /\ Len(risk) = 1
  /\ risk[1].request.recipientId = "bob"
  /\ users = UserDatabase

\* C34: one run_tick call handles each payment of the list it read at most
\* once: for each payment it calls the ExecutionEngine at most once, fetches the
\* balance at most once, sends at most one failure notice and returns at most
\* one entry, also for a recurring payment that is still due after the tick
\* handled it.
C34_OncePerTick ==
  [][ TickStep => \A i \in 1 .. Len(payments) :
                    /\ Cardinality(CallsFor(i, "execute_payment")) <= 1
                    /\ Cardinality(CallsFor(i, "fetch_balance")) <= 1
                    /\ Cardinality(CallsFor(i, "notify_user")) <= 1
                    /\ Cardinality(EntriesFor(i)) <= 1 ]_vars

\* a tick executed a recurring payment once and left it SCHEDULED with its old
\* timestamp, so that it is due again at the very time of the tick
C34_Witness ==
  /\ ret.op = "run_tick"
  /\ Len(payments) = 1
  /\ is_recurring(payments[1].conditions)
  /\ payments[1].status = "SCHEDULED"
  /\ payments[1].lastExecutedAt = now
  /\ _is_due(payments[1], now)
  /\ ret.processed = <<[paymentId |-> payments[1].paymentId, success |-> TRUE]>>
  /\ Cardinality({k \in 1 .. Len(calls) : calls[k].api = "execute_payment"}) = 1

\* C35: a tick calls the ExecutionEngine for a payment only when the payment was
\* due at the time of the tick (status APPROVED or SCHEDULED), its owner is in
\* the user store, its amount is > 0 and the balance the pre-check fetched
\* before the call was at least the amount; for a payment in status EXECUTED or
\* FAILED no tick calls the engine.
C35_ExecutesOnlyChecked ==
  [][ TickStep => \A i \in 1 .. Len(payments) :
                    /\ CallsFor(i, "execute_payment") # {}
                         => /\ DueAt(payments[i], now)
                            /\ get_user(users, payments[i].userId) # NoUser
                            /\ payments[i].amount > 0
                            /\ \E k \in CallsFor(i, "fetch_balance") :
                                 /\ calls'[k].message = "ok"
                                 /\ calls'[k].value >= payments[i].amount
                                 /\ calls'[k].userId = payments[i].userId
                                 /\ \A e \in CallsFor(i, "execute_payment") : k < e
                    /\ payments[i].status \in {"EXECUTED", "FAILED"}
                         => CallsFor(i, "execute_payment") = {} ]_vars

\* a tick over a store that holds a payment failed by an earlier tick and a due
\* payment: it called the engine for the due one only, after a covering fetch
C35_Witness ==
  /\ ret.op = "run_tick"
  /\ Len(payments) = 2
  /\ payments[1].status = "FAILED"
  /\ payments[1].updatedAt < now
  /\ payments[2].status = "EXECUTED"
  /\ payments[2].lastExecutedAt = now
  /\ payments[2].amount > 0
  /\ \A k \in 1 .. Len(calls) : calls[k].paymentId # payments[1].paymentId
  /\ \E k, e \in 1 .. Len(calls) :
       /\ k < e
       /\ calls[k].api = "fetch_balance" /\ calls[k].paymentId = payments[2].paymentId
       /\ calls[k].message = "ok" /\ calls[k].value >= payments[2].amount
       /\ calls[e].api = "execute_payment" /\ calls[e].paymentId = payments[2].paymentId

\* the payment at position i is APPROVED with a scheduledTimestamp that parses
\* (to a time the clock reaches)
AwaitsRun(i) ==
  /\ i <= Len(payments)
  /\ payments[i].status = "APPROVED"
  /\ parse_iso(payments[i].scheduledTimestamp) # NoTs
  /\ parse_iso(payments[i].scheduledTimestamp) <= MaxTime

C37_PaymentIdUnique ==
  /\ [](\A i, j \in 1 .. Len(payments) :
          i # j => payments[i].paymentId # payments[j].paymentId)
  /\ [][ /\ (ProcessStep /\ ret'.payment_id # NoId)
              => LET idx == IndexOf(payments, ret'.payment_id)
                 IN  IF idx # 0
                     THEN /\ Len(payments') = Len(payments)
                          /\ payments'[idx].paymentId = ret'.payment_id
                          /\ payments'[idx].createdAt = payments[idx].createdAt
                          /\ payments'[idx].updatedAt = now
                          /\ payments'[idx].status = "APPROVED"
                          /\ payments'[idx].amount = Last(risk').request.amount
                          /\ \A i \in 1 .. Len(payments) : i # idx => payments'[i] = payments[i]
                     ELSE /\ Len(payments') = Len(payments) + 1
                          /\ Last(payments').paymentId = ret'.payment_id
                          /\ Last(payments').createdAt = now
                          /\ \A i \in 1 .. Len(payments) : payments'[i] = payments[i]
         /\ TickStep
              => /\ Len(payments') = Len(payments)
                 /\ \A i \in 1 .. Len(payments) :
                      payments'[i].paymentId = payments[i].paymentId ]_vars

\* an approval that carried the id of a stored payment replaced that record at a
\* later time: the store still holds one record, created when the first approval
\* wrote it
C37_Witness ==
  /\ ret.op = "process"
  /\ Len(payments) = 1
  /\ ret.payment_id = payments[1].paymentId
  /\ Len(risk) = 2
  /\ risk[2].request.paymentId = payments[1].paymentId
  /\ payments[1].status = "APPROVED"
  /\ payments[1].createdAt < payments[1].updatedAt
  /\ payments[1].createdAt = risk[1].timestamp
  /\ payments[1].updatedAt = now

\* the recorded request is a confirmed one of a user without a maxPaymentAmount
\* preference (or with one of 0), scored by the heuristic
NoLimitRequest(request) ==
  /\ llm = "heuristic"
  /\ get_user(users, request.userId).maxPaymentAmount = 0
  /\ ~Unconfirmed(request)

\* C38: with the heuristic scorer, a user without a maxPaymentAmount preference
\* (or with one of 0) can never have a payment approved: every confirmed request
\* with a non-zero amount gets risk 1 and the decision DENY "Risk too high" and
\* creates no payment, whatever the balance, and no confirmed request of such a
\* user is approved.
C38_NoLimitNeverApproved ==
  [][ (Decided /\ NoLimitRequest(Last(risk').request))
        => /\ Last(risk').request.amount # 0
                => /\ Last(risk').model.riskScore = 100
                   /\ Last(risk').model.decision = "DENY"
                   /\ ret'.decision = "DENY"
                   /\ ret'.reason.text = "Risk too high"
           /\ ret'.decision # "APPROVE"
           /\ ret'.payment_id = NoId
           /\ payments' = payments ]_vars

\* the guardian created the payment at position i under an id it generated: an
\* approving evaluation of a request without a paymentId wrote it, and no
\* approved request has written it under its id since
AutoCreated(i) ==
  /\ \E k \in 1 .. Len(risk) :
       /\ CreatedBy(payments, risk, i, k)
       /\ risk[k].request.paymentId = NoId
       /\ risk[k].model.decision = "APPROVE"
       /\ risk[k].timestamp = payments[i].createdAt
  /\ \A k \in 1 .. Len(risk) :
       (risk[k].request.paymentId = payments[i].paymentId
        /\ risk[k].model.decision = "APPROVE")
         => Unconfirmed(risk[k].request)

\* validate reported the payment at position i as lacking an assessment
ReportedLacking(i) ==
  \E n \in 1 .. Len(ret'.issues) :
    ret'.issues[n] = Issue("lacks risk assessment entry", payments[i].paymentId, "")

\* no recorded request carries the id of the payment at position i
Unnamed(i) ==
  \A k \in 1 .. Len(risk) : risk[k].request.paymentId # payments[i].paymentId

AdminNotified ==
  \E n \in 1 .. Len(calls') :
    calls'[n].api = "notify_admin" /\ calls'[n].message = "ArcPay sync issue"

\* C39 as stated: validate reports every APPROVED or EXECUTED payment that the
\* guardian created under a generated id as "lacks risk assessment entry" and
\* notifies the administrator.
C39_AutoIdReported ==
  [][ ret'.op = "validate"
        => \A i \in 1 .. Len(payments) :
             (payments[i].status \in {"APPROVED", "EXECUTED"} /\ AutoCreated(i))
               => (ReportedLacking(i) /\ AdminNotified) ]_vars

\* C39 amended: validate looks a payment's assessments up by the paymentId in
\* the recorded request, and a request without a paymentId is filed under no
\* payment: it reports an APPROVED or EXECUTED payment as "lacks risk assessment
\* entry", and notifies the administrator, exactly when no recorded request
\* carries the payment's id.  A payment created under a generated id is reported
\* until a request that names its id is recorded, whatever that request's
\* decision.
C39_UnnamedReported ==
  [][ ret'.op = "validate"
        => \A i \in 1 .. Len(payments) :
             /\ ReportedLacking(i)
                  <=> (payments[i].status \in {"APPROVED", "EXECUTED"} /\ Unnamed(i))
             /\ ReportedLacking(i) => AdminNotified ]_vars

\* validate reported an executed payment that the guardian had approved under a
\* generated id, and notified the administrator
C39_Witness ==
  /\ ret.op = "validate"
  /\ Len(payments) = 1
  /\ payments[1].status = "EXECUTED"
  /\ Len(risk) = 1
  /\ risk[1].request.paymentId = NoId
  /\ risk[1].model.decision = "APPROVE"
  /\ ret.issues = <<Issue("lacks risk assessment entry", payments[1].paymentId, "")>>
  /\ calls = <<Call("notify_admin", NoId, "", "ArcPay sync issue", 0)>>

\* the step is a /v1/commands request whose stock purchase went to the guardian
HandedOver ==
  /\ ret'.op = "handle_command"
  /\ ret'.status = "READY_FOR_GUARDIAN"
  /\ Len(risk') = Len(risk) + 1

\* C40 as stated: a stock purchase that the stock agent hands to the guardian
\* always carries a truthy confirmation flag, so the guardian never answers
\* AWAITING_CONFIRMATION for it.
C40_AlwaysConfirmed ==
  [][ HandedOver => /\ ~Unconfirmed(Last(risk').request)
                    /\ ret'.decision # "AWAITING_CONFIRMATION" ]_vars

\* C40 amended: the stock agent hands a purchase to the guardian exactly when
\* its symbol resolves, and sets confirmation to true unless the request's
\* entities already carry a confirmation key.  The guardian answers
\* AWAITING_CONFIRMATION for it exactly when the request carried a falsy
\* confirmation and no truthy confirmed or confirm; a request that carries no
\* confirmation flag at all is decided in that one request, and scheduled as a
\* payment when it is approved.
C40_ConfirmedUnlessRefused ==
  [][ ret'.op = "handle_command"
        => /\ ret'.status = "READY_FOR_GUARDIAN"
                <=> find(StockMarketDb, ret'.sent.selectedStock) # NoStock
           /\ ret'.status # "READY_FOR_GUARDIAN" => risk' = risk
           /\ HandedOver
                => /\ Last(risk').request.confirmation =
                        IF ret'.sent.confirmation = "" THEN "true" ELSE ret'.sent.confirmation
                   /\ Last(risk').request.recipientId =
                        "stock::" \o find(StockMarketDb, ret'.sent.selectedStock).symbol
                   /\ ret'.decision = "AWAITING_CONFIRMATION"
                        <=> /\ ret'.sent.confirmation = "false"
                            /\ ~Truthy(ret'.sent.confirmed)
                            /\ ~Truthy(ret'.sent.confirm)
                   /\ ret'.decision = "APPROVE"
                        => /\ ret'.payment_id # NoId
                           /\ payments'[IndexOf(payments', ret'.payment_id)].status = "APPROVED"
                           /\ payments'[IndexOf(payments', ret'.payment_id)].recipient
                                = Last(risk').request.recipientId ]_vars

\* a stock purchase sent without any confirmation flag was approved and
\* scheduled as a payment by that one request
C40_Witness ==
  /\ ret.op = "handle_command"
  /\ ret.status = "READY_FOR_GUARDIAN"
  /\ ret.sent.confirmation = "" /\ ret.sent.confirmed = "" /\ ret.sent.confirm = ""
  /\ ret.decision = "APPROVE"
  /\ Len(payments) = 1
  /\ ret.payment_id = payments[1].paymentId
  /\ payments[1].status = "APPROVED"
  /\ payments[1].recipient = "stock::ACME"
  /\ Last(risk).request.confirmation = "true"
  /\ Last(risk).verification = "verified"

====
